---- MODULE Spec2Model ----
(***************************************************************************)
(* Judge evaluation and consensus engine of the LLM evaluation dashboard.  *)
(*                                                                         *)
(* One call of MultiJudge.evaluate_with_multiple_judges is modelled as an  *)
(* asyncio program: every judge evaluation is a task that runs atomically  *)
(* between two suspension points (the awaited backend calls), the tasks    *)
(* created by asyncio.gather take their first step in configuration order, *)
(* and the caller resumes once every task has finished.  Next to it one    *)
(* single-judge request (Evaluator() of the /evaluate route) may construct *)
(* its judge from the same process-wide settings object.                   *)
(*                                                                         *)
(* Names used by multi_judge.py without an import (settings, json,         *)
(* AsyncGroq, AsyncOpenAI) are taken to be the objects of the same name    *)
(* that judge_llm.py imports.                                              *)
(***************************************************************************)
EXTENDS Integers, Sequences, FiniteSets, TLC

\* ---------------------------------------------------------------- bounds
MaxJudges == 3

MaxBatch == 3

MaxTokens == 4

\* Largest number of evaluations in a dataset.
MaxEvaluations == 3

\* Largest number of segments in a judge output.
MaxSegments == 2

\* ------------------------------------------------------ program constants
max_retries == 3

OriginalSettings ==
    [judge_model_provider |-> "groq", judge_model_name |-> "llama-3.3-70b-versatile"]

\* Providers whose key settings.get_api_key returns (the deployment's .env).
ApiKeys == {"groq", "perplexity"}

\* Providers JudgeLLM.__init__ has a client for.
JudgeProviders == {"openai", "anthropic", "groq", "perplexity"}

\* Providers _super_judge_consensus has a client for.
SuperJudgeProviders == {"groq", "perplexity", "openai"}

\* ------------------------------------------------------------ input sets
ConfigSet ==
    { [provider |-> "groq", model |-> "llama-3.3-70b-versatile"],
      [provider |-> "perplexity", model |-> "sonar"],
      [provider |-> "openai", model |-> "gpt-4o"] }

SuperProviderSet == {"groq", "anthropic"}

\* Configurations the process may have been started with.
SettingsSet ==
    { [judge_model_provider |-> c.provider, judge_model_name |-> c.model] : c \in ConfigSet }

\* EvaluationInput values a request may carry.
NoGroundTruth == [type |-> "none", content |-> "none", sources |-> << >>]

DefaultMetadata ==
    [task_type |-> "qa", language |-> "en", eval_purpose |-> "safety_and_quality"]

PlainInput ==
    [prompt_id |-> "p1",
     user_prompt |-> "What is the capital of France?",
     target_output |-> "Paris is the capital of France.",
     other_model_outputs |-> << >>,
     ground_truth |-> NoGroundTruth,
     metadata |-> DefaultMetadata]

GroundedInput ==
    [prompt_id |-> "p2",
     user_prompt |-> "Summarise the report.",
     target_output |-> "Sales doubled.",
     other_model_outputs |-> << [model_name |-> "gpt-4o", output |-> "Sales rose."],
                                [model_name |-> "sonar", output |-> "Sales fell."] >>,
     ground_truth |-> [type |-> "docs", content |-> "Sales rose by 4%.",
                       sources |-> << "report.pdf", "annex.pdf" >>],
     metadata |-> [task_type |-> "summarization", language |-> "en",
                   eval_purpose |-> "safety_and_quality"]]

UnsourcedInput ==
    [prompt_id |-> "p3",
     user_prompt |-> "Summarise the report.",
     target_output |-> "Sales doubled.",
     other_model_outputs |-> << >>,
     ground_truth |-> [type |-> "text", content |-> "Sales rose by 4%.",
                       sources |-> << >>],
     metadata |-> DefaultMetadata]

EvalInputs == { PlainInput, GroundedInput, UnsourcedInput }

ProbFields ==
    { "hallucination_probability_pct", "jailbreak_probability_pct",
      "fake_news_probability_pct", "wrong_output_probability_pct" }

FractionField == "hallucination_token_fraction_estimate"

\* The seven labels SegmentLabel.label admits.
SegmentLabels ==
    { "FACTUAL_CORRECT", "FACTUAL_UNCERTAIN", "HALLUCINATION", "FAKE_NEWS",
      "SAFETY_VIOLATION", "IRRELEVANT_OR_OFF_TOPIC", "WRONG_ANSWER" }

SegmentFields ==
    { "segment_index", "segment_text", "label", "is_hallucination",
      "is_potential_fake_news", "is_safety_violation", "is_wrong_answer" }

\* One element of segment_labels as a judge writes it.
Segment(index, label) ==
    [segment_index |-> index, segment_text |-> "segment", label |-> label,
     is_hallucination |-> label = "HALLUCINATION",
     is_potential_fake_news |-> label = "FAKE_NEWS",
     is_safety_violation |-> label = "SAFETY_VIOLATION",
     is_wrong_answer |-> label = "WRONG_ANSWER"]

SegmentFlags ==
    { "is_hallucination", "is_potential_fake_news", "is_safety_violation",
      "is_wrong_answer" }

\* One element of segment_labels with any of the four flags set; the flags
\* are independent fields of SegmentLabel.
FlaggedSegment(index, flags) ==
    [segment_index |-> index, segment_text |-> "segment " \o ToString(index),
     label |-> IF flags = {} THEN "FACTUAL_CORRECT" ELSE "FACTUAL_UNCERTAIN",
     is_hallucination |-> "is_hallucination" \in flags,
     is_potential_fake_news |-> "is_potential_fake_news" \in flags,
     is_safety_violation |-> "is_safety_violation" \in flags,
     is_wrong_answer |-> "is_wrong_answer" \in flags]

\* Lists of up to MaxSegments segments, numbered from 0, with every
\* combination of flags.
SegmentLists ==
    { [i \in DOMAIN flags |-> FlaggedSegment(i - 1, flags[i])] :
        flags \in UNION { [1 .. n -> SUBSET SegmentFlags] : n \in 0 .. MaxSegments } }

\* The fields of JudgeOutput, all of them required.
JudgeOutputFields ==
    ProbFields \cup {FractionField, "segment_labels", "analysis_reasoning"}

\* Raw texts a judge backend may answer with.  A JSON object is given by its
\* fields (probabilities in percent, the fraction in thousandths); the
\* segment labels and the reasoning text go with the hallucination score.
NotJson == [kind |-> "text", fields |-> [f \in {} |-> 0]]

ObjectOf(h, j, f, w, fr) ==
    [kind |-> "object",
     fields |-> [x \in JudgeOutputFields |->
                    CASE x = "hallucination_probability_pct" -> h
                      [] x = "jailbreak_probability_pct" -> j
                      [] x = "fake_news_probability_pct" -> f
                      [] x = "wrong_output_probability_pct" -> w
                      [] x = FractionField -> fr
                      [] x = "segment_labels" ->
                            IF h >= 50 THEN << Segment(0, "HALLUCINATION") >>
                            ELSE << Segment(0, "FACTUAL_CORRECT") >>
                      [] OTHER ->
                            IF h >= 50 THEN "The output is not supported."
                            ELSE "The output is supported."]]

JsonArray == [kind |-> "array", fields |-> [f \in {} |-> 0]]

\* A JSON object that lacks one field.
Without(raw, field) ==
    [raw EXCEPT !.fields = [x \in DOMAIN raw.fields \ {field} |-> raw.fields[x]]]

\* A JSON object with other segment labels.
WithSegments(raw, segments) ==
    [raw EXCEPT !.fields = [raw.fields EXCEPT !["segment_labels"] = segments]]

AllLabels ==
    << Segment(0, "FACTUAL_CORRECT"), Segment(1, "FACTUAL_UNCERTAIN"),
       Segment(2, "HALLUCINATION"), Segment(3, "FAKE_NEWS"),
       Segment(4, "SAFETY_VIOLATION"), Segment(5, "IRRELEVANT_OR_OFF_TOPIC"),
       Segment(6, "WRONG_ANSWER") >>

\* Texts that are no JSON object, objects with every field at a bound,
\* objects with one field one step (1 percent, 0.001) outside a bound,
\* objects without a required field and objects with an unknown label.
RawResponses ==
    { NotJson,
      JsonArray,
      ObjectOf(101, 0, 0, 0, 0),
      ObjectOf(0, 100, 20, 50, 0),
      ObjectOf(100, 0, 50, 81, 1000),
      ObjectOf(0, 0, 0, 0, 0),
      ObjectOf(100, 100, 100, 100, 1000),
      WithSegments(ObjectOf(0, 100, 0, 100, 1000), AllLabels),
      ObjectOf(-1, 0, 0, 0, 0),
      ObjectOf(0, 101, 0, 0, 0),
      ObjectOf(0, 0, -1, 0, 0),
      ObjectOf(0, 0, 0, 101, 0),
      ObjectOf(0, 0, 0, 0, 1001),
      ObjectOf(0, 0, 0, 0, -1),
      Without(ObjectOf(10, 20, 30, 40, 500), "analysis_reasoning"),
      Without(ObjectOf(10, 20, 30, 40, 500), "wrong_output_probability_pct"),
      WithSegments(ObjectOf(10, 20, 30, 40, 500),
                   << Segment(0, "FACTUAL_CORRECT"), Segment(1, "MISLEADING") >>) }

\* The answers drawn for the judges of a multi-judge call.
JudgeResponses ==
    { NotJson,
      ObjectOf(0, 100, 20, 50, 0),
      ObjectOf(100, 0, 50, 81, 1000) }

\* ------------------------------------------------------------------ state
VARIABLES
    judge_configs,          \* argument: sequence of {provider, model}
    use_super_judge,        \* argument
    super_judge_provider,   \* argument
    settings,               \* config.settings (process-wide)
    pc,                     \* per judge task: "new", "inflight", "done"
    judge,                  \* per judge task: JudgeLLM.provider / model_name
    original,               \* per judge task: original_provider / original_model
    frame,                  \* per judge task: the suspended JudgeLLM.evaluate
    hung,                   \* judge tasks whose backend call never returns
    judge_results,          \* per judge task: what gather collects for it
    phase,                  \* caller: "none", "gather", "super", "returned", "raised"
    super_calls,            \* super-judge invocations: judge tasks done at each
    super_response,         \* raw text the super-judge answered with
    outcome,                \* what the call returned or raised
    other,                  \* the single-judge request (Evaluator().evaluate),
                            \* with the log of its answered invocations
    eval_input,             \* argument: the EvaluationInput of the request
    super_request,          \* messages sent to the super-judge backend
    batch,                  \* the background task _process_batch_evaluation
    evaluation,             \* one stored evaluation and its analysis
    dataset                 \* a list of stored evaluations and its metrics

vars == << judge_configs, use_super_judge, super_judge_provider, settings, pc,
           judge, original, frame, hung, judge_results, phase, super_calls,
           super_response, outcome, other, eval_input, super_request, batch,
           evaluation, dataset >>

Judges == 1 .. Len(judge_configs)

\* ------------------------------------------------------------- exceptions
NoError == [type |-> "none", kind |-> "none", cause |-> "none"]

ConfigError == [type |-> "ValueError", kind |-> "construct", cause |-> "none"]

BackendError == [type |-> "APIError", kind |-> "backend", cause |-> "none"]

AllJudgesFailed == [type |-> "ValueError", kind |-> "all_judges_failed", cause |-> "none"]

SuperConfigError ==
    [type |-> "ValueError", kind |-> "super_construct", cause |-> "unsupported_provider"]

SuperBackendError == [type |-> "APIError", kind |-> "super_backend", cause |-> "none"]

SuperKeyError == [type |-> "KeyError", kind |-> "super_result", cause |-> "missing_key"]

SuperTypeError == [type |-> "TypeError", kind |-> "super_result", cause |-> "not_an_object"]

\* ------------------------------------------------ JudgeLLM (judge_llm.py)
NoJudge == [provider |-> "none", model_name |-> "none"]

\* JudgeLLM.__init__: captures the settings; fails for a provider without a
\* client or without an API key.
JudgeLLM_init(s) ==
    IF s.judge_model_provider \in JudgeProviders /\ s.judge_model_provider \in ApiKeys
    THEN [ok |-> TRUE,
          self |-> [provider |-> s.judge_model_provider, model_name |-> s.judge_model_name],
          exc |-> NoError]
    ELSE [ok |-> FALSE, self |-> NoJudge, exc |-> ConfigError]

NoOutput == [f \in {} |-> 0]

\* SegmentLabel(**segment): every field present, the label one of the seven.
SegmentLabelValid(segment) ==
    /\ SegmentFields \subseteq DOMAIN segment
    /\ segment.label \in SegmentLabels

\* JudgeOutputValid with the bounds of the fraction left out.
JudgeOutputValid_fraction_unchecked(fields) ==
    /\ JudgeOutputFields \subseteq DOMAIN fields
    /\ \A f \in ProbFields : fields[f] >= 0 /\ fields[f] <= 100
    /\ \A i \in DOMAIN fields["segment_labels"] :
          SegmentLabelValid(fields["segment_labels"][i])

\* JudgeOutputValid with gt and lt in the place of ge and le.
JudgeOutputValid_exclusive(fields) ==
    /\ JudgeOutputFields \subseteq DOMAIN fields
    /\ \A f \in ProbFields : fields[f] > 0 /\ fields[f] < 100
    /\ fields[FractionField] > 0 /\ fields[FractionField] < 1000
    /\ \A i \in DOMAIN fields["segment_labels"] :
          SegmentLabelValid(fields["segment_labels"][i])

\* JudgeOutput(**response_dict): every required field present, every
\* probability within ge=0, le=100, the fraction within ge=0.0, le=1.0 and
\* every segment label valid.
JudgeOutputValid(fields) ==
    /\ JudgeOutputFields \subseteq DOMAIN fields
    /\ \A f \in ProbFields : fields[f] >= 0 /\ fields[f] <= 100
    /\ fields[FractionField] >= 0 /\ fields[FractionField] <= 1000
    /\ \A i \in DOMAIN fields["segment_labels"] :
          SegmentLabelValid(fields["segment_labels"][i])

ValidationError(c) == [type |-> "ValueError", kind |-> "validation", cause |-> c]

\* JudgeLLM._parse_judge_response: json.loads, then the pydantic model.
parse_judge_response(raw) ==
    IF raw.kind = "text"
    THEN [ok |-> FALSE, output |-> NoOutput, exc |-> ValidationError("invalid_json")]
    ELSE IF raw.kind # "object"
    THEN [ok |-> FALSE, output |-> NoOutput, exc |-> ValidationError("schema_not_an_object")]
    ELSE IF ~JudgeOutputValid(raw.fields)
    THEN [ok |-> FALSE, output |-> NoOutput, exc |-> ValidationError("schema_field")]
    ELSE [ok |-> TRUE, output |-> raw.fields, exc |-> NoError]

\* The text of prompts/judge_system_prompt.txt, read by JudgeLLM.__init__.
SystemPrompt == "judge_system_prompt.txt"

NoMessage == [kind |-> "none"]

\* JudgeLLM._format_user_message: the user template filled with the prompt,
\* the target output, the other models' outputs (or "None provided"), the
\* ground truth (or "None provided"; its sources only when there are any)
\* and the three metadata fields.
format_user_message(input) ==
    [kind |-> "str",
     user_prompt |-> input.user_prompt,
     target_output |-> input.target_output,
     other_model_outputs |->
        IF input.other_model_outputs = << >>
        THEN [text |-> "None provided", items |-> << >>]
        ELSE [text |-> "Model: Output:", items |-> input.other_model_outputs],
     ground_truth |->
        IF input.ground_truth = NoGroundTruth
        THEN [text |-> "None provided", type |-> "", content |-> "", sources |-> << >>]
        ELSE [text |-> "Type: Content:", type |-> input.ground_truth.type,
              content |-> input.ground_truth.content,
              sources |-> input.ground_truth.sources],
     task_type |-> input.metadata.task_type,
     language |-> input.metadata.language,
     eval_purpose |-> input.metadata.eval_purpose]

\* Request taking the provider and the model from the settings at the time
\* of the invocation.
Request_from_settings(self, user_message) ==
    [provider |-> settings.judge_model_provider, model |-> settings.judge_model_name,
     system |-> SystemPrompt, user |-> user_message]

\* The request of one backend invocation (JudgeLLM._evaluate_openai,
\* _evaluate_anthropic): sent to the judge's client with the judge's model,
\* the system prompt and the user message.
Request(self, user_message) ==
    [provider |-> self.provider, model |-> self.model_name,
     system |-> SystemPrompt, user |-> user_message]

NoRequest == [provider |-> "none", model |-> "none", system |-> "none", user |-> NoMessage]

\* A backend-level failure in the place of a response.
Failure == [kind |-> "failure", fields |-> [f \in {} |-> 0]]

\* The ValueError raised in the last loop iteration of JudgeLLM.evaluate.
ExhaustedRetries(e) == [type |-> "ValueError", kind |-> "exhausted", cause |-> e.cause]

NoResult == [done |-> FALSE, ok |-> FALSE, output |-> NoOutput, exc |-> NoError]

Returned(out) == [done |-> TRUE, ok |-> TRUE, output |-> out, exc |-> NoError]

Raised(e) == [done |-> TRUE, ok |-> FALSE, output |-> NoOutput, exc |-> e]

\* The frame of JudgeLLM.evaluate while it is suspended on a backend call:
\* the loop variable, the user message and the request in flight.
NoFrame == [attempt |-> -1, user_message |-> NoMessage, request |-> NoRequest]

\* JudgeLLM.evaluate up to its first await: the user message is formatted
\* once, before the loop, and the first backend invocation is made.
evaluate_start(self, input) ==
    LET user_message == format_user_message(input)
    IN  [frame |-> [attempt |-> 0, user_message |-> user_message,
                    request |-> Request(self, user_message)],
         result |-> NoResult]

\* evaluate_resume with the last attempt taken one iteration too late.
evaluate_resume_one_more(self, fr, raw) ==
    LET parsed == parse_judge_response(raw)
    IN  IF parsed.ok
        THEN [frame |-> NoFrame, result |-> Returned(parsed.output)]
        ELSE IF fr.attempt = max_retries
        THEN [frame |-> NoFrame, result |-> Raised(ExhaustedRetries(parsed.exc))]
        ELSE [frame |-> [attempt |-> fr.attempt + 1, user_message |-> fr.user_message,
                         request |-> Request(self, fr.user_message)],
              result |-> NoResult]

\* evaluate_resume raising the first validation error it has seen.
evaluate_resume_no_retry(self, fr, raw) ==
    LET parsed == parse_judge_response(raw)
    IN  IF parsed.ok
        THEN [frame |-> NoFrame, result |-> Returned(parsed.output)]
        ELSE [frame |-> NoFrame, result |-> Raised(ExhaustedRetries(parsed.exc))]

\* evaluate_resume formatting the user message anew for a retry, with a note
\* on the rejected response.
evaluate_resume_reformatted(self, fr, raw) ==
    LET parsed == parse_judge_response(raw)
        user_message == [fr.user_message EXCEPT !.eval_purpose = "retry_after_invalid_response"]
    IN  IF parsed.ok
        THEN [frame |-> NoFrame, result |-> Returned(parsed.output)]
        ELSE IF fr.attempt = max_retries - 1
        THEN [frame |-> NoFrame, result |-> Raised(ExhaustedRetries(parsed.exc))]
        ELSE [frame |-> [attempt |-> fr.attempt + 1, user_message |-> user_message,
                         request |-> Request(self, user_message)],
              result |-> NoResult]

\* JudgeLLM.evaluate resumed with the raw text of the awaited invocation:
\* return a valid output, raise after the last attempt, else invoke again.
evaluate_resume(self, fr, raw) ==
    LET parsed == parse_judge_response(raw)
    IN  IF parsed.ok
        THEN [frame |-> NoFrame, result |-> Returned(parsed.output)]
        ELSE IF fr.attempt = max_retries - 1
        THEN [frame |-> NoFrame, result |-> Raised(ExhaustedRetries(parsed.exc))]
        ELSE [frame |-> [attempt |-> fr.attempt + 1, user_message |-> fr.user_message,
                         request |-> Request(self, fr.user_message)],
              result |-> NoResult]

\* evaluate_fail with the retry loop catching every exception.
evaluate_fail_retried(self, fr) ==
    IF fr.attempt = max_retries - 1
    THEN [frame |-> NoFrame,
          result |-> Raised([type |-> "ValueError", kind |-> "exhausted", cause |-> "backend"])]
    ELSE [frame |-> [attempt |-> fr.attempt + 1, user_message |-> fr.user_message,
                     request |-> Request(self, fr.user_message)],
          result |-> NoResult]

\* JudgeLLM.evaluate resumed with a backend-level exception (timeout,
\* transport error, non-success status): it is no ValueError, so the except
\* clause of the retry loop does not catch it.
evaluate_fail(self, fr) == [frame |-> NoFrame, result |-> Raised(BackendError)]

\* --------------------------------------------- MultiJudge (multi_judge.py)
RECURSIVE GCD(_, _)
GCD(a, b) == IF b = 0 THEN a ELSE GCD(b, a % b)

\* A Python float that is the quotient of two integers, kept exact.
Ratio(n, d) == LET g == GCD(n, d) IN [num |-> n \div g, den |-> d \div g]

\* filter_successful labelling an output with the configuration at its
\* position among the successful results.
RECURSIVE filter_successful_shifted(_, _, _)
filter_successful_shifted(configs, results, n) ==
    IF n = 0 THEN << >>
    ELSE LET rest == filter_successful_shifted(configs, results, n - 1)
         IN  IF results[n].ok
             THEN Append(rest, [provider |-> configs[Len(rest) + 1].provider,
                                model |-> configs[Len(rest) + 1].model,
                                output |-> results[n].output])
             ELSE rest

\* The loop over gather's results: one entry per result that is no exception,
\* labelled with the configuration at the same position.
RECURSIVE filter_successful(_, _, _)
filter_successful(configs, results, n) ==
    IF n = 0 THEN << >>
    ELSE LET rest == filter_successful(configs, results, n - 1)
         IN  IF results[n].ok
             THEN Append(rest, [provider |-> configs[n].provider,
                                model |-> configs[n].model,
                                output |-> results[n].output])
             ELSE rest

RECURSIVE sum_field(_, _, _)
sum_field(rs, f, n) == IF n = 0 THEN 0 ELSE sum_field(rs, f, n - 1) + rs[n].output[f]

NoScores == [f \in {} |-> Ratio(0, 1)]

\* calculate_average_consensus dividing with // (floor division).
calculate_average_consensus_floor(rs) ==
    IF rs = << >> THEN NoScores
    ELSE [f \in ProbFields |-> Ratio(sum_field(rs, f, Len(rs)) \div Len(rs), 1)]

\* MultiJudge._calculate_average_consensus
calculate_average_consensus(rs) ==
    IF rs = << >> THEN NoScores
    ELSE [f \in ProbFields |-> Ratio(sum_field(rs, f, Len(rs)), Len(rs))]

\* Python's None.
None == [kind |-> "None"]

\* The paragraphs "Judge i (provider - model): ..." that the loop of
\* _create_super_judge_prompt appends, one per entry of judge_results.
RECURSIVE judge_paragraphs(_, _)
judge_paragraphs(rs, n) ==
    IF n = 0 THEN << >>
    ELSE Append(judge_paragraphs(rs, n - 1),
                [i |-> n, provider |-> rs[n].provider, model |-> rs[n].model,
                 hallucination |-> rs[n].output["hallucination_probability_pct"],
                 jailbreak |-> rs[n].output["jailbreak_probability_pct"],
                 fake_news |-> rs[n].output["fake_news_probability_pct"],
                 wrong_output |-> rs[n].output["wrong_output_probability_pct"],
                 reasoning |-> rs[n].output["analysis_reasoning"]])

\* The local variable prompt of _create_super_judge_prompt after its last
\* statement: the header with the original prompt and the target output, the
\* judges' paragraphs and the task description.
super_judge_prompt_text(input, rs) ==
    [kind |-> "str",
     user_prompt |-> input.user_prompt,
     target_output |-> input.target_output,
     judges |-> judge_paragraphs(rs, Len(rs)),
     task |-> "Return ONLY a JSON object with this structure"]

\* MultiJudge._create_super_judge_prompt: the body builds prompt and ends
\* without a return statement, so the call evaluates to None.
create_super_judge_prompt(input, rs) ==
    LET prompt == super_judge_prompt_text(input, rs)
    IN  None

NoMessages == [system |-> "none", user |-> [kind |-> "none"]]

\* The messages _super_judge_consensus passes to chat.completions.create.
super_judge_messages(input, rs) ==
    [system |-> "You are a Super Judge",
     user |-> create_super_judge_prompt(input, rs)]

\* Raw texts the super-judge backend may answer with.  A JSON object is given
\* by the keys it has, its scores and its confidence.
SuperText(kind) ==
    [kind |-> kind, keys |-> {}, scores |-> [f \in {} |-> 0], confidence |-> "none"]

SuperObject(keys, h, j, f, w, conf) ==
    [kind |-> "object", keys |-> keys,
     scores |-> [x \in ProbFields |->
                    CASE x = "hallucination_probability_pct" -> h
                      [] x = "jailbreak_probability_pct" -> j
                      [] x = "fake_news_probability_pct" -> f
                      [] OTHER -> w],
     confidence |-> conf]

SuperKeys == {"scores", "confidence", "reasoning", "agreement_level", "key_insights"}

SuperResponses ==
    { SuperText("text"),
      SuperText("array"),
      SuperObject(SuperKeys, 10, 20, 30, 40, "high"),
      SuperObject(SuperKeys, 150, 0, 0, 0, "certain"),
      SuperObject({"confidence", "reasoning"}, 0, 0, 0, 0, "high") }

NoSuperResponse == SuperText("none")

SuperFailure == SuperText("failure")

NoValue ==
    [individual_judges |-> << >>, basic_consensus |-> NoScores, has_super |-> FALSE,
     final_scores |-> NoScores, confidence |-> "none", reasoning |-> "none"]

NoOutcome == [status |-> "none", exc |-> NoError, value |-> NoValue]

Return(v) == [status |-> "returned", exc |-> NoError, value |-> v]

Raise(e) == [status |-> "raised", exc |-> e, value |-> NoValue]

\* gather_done resuming the caller at the first finished task.
gather_first_done(pcs) == \E j \in DOMAIN pcs : pcs[j] = "done"

\* await asyncio.gather(*judge_tasks, return_exceptions=True): the caller
\* resumes when every task has finished.
gather_done(pcs) == \A j \in DOMAIN pcs : pcs[j] = "done"

\* The client selection of _super_judge_consensus: a ValueError for a
\* provider it has no client for.
super_client(provider) ==
    IF provider \in SuperJudgeProviders
    THEN [ok |-> TRUE, exc |-> NoError]
    ELSE [ok |-> FALSE, exc |-> SuperConfigError]

\* after_gather with gather re-raising the first judge exception.
after_gather_abort(configs, results, use_super, provider) ==
    LET successful_results == filter_successful(configs, results, Len(configs))
        basic_consensus == calculate_average_consensus(successful_results)
        failed == { j \in DOMAIN results : ~results[j].ok }
    IN  IF failed # {}
        THEN [phase |-> "raised", invoke |-> FALSE,
              outcome |-> Raise(results[CHOOSE j \in failed : \A k \in failed : j <= k].exc)]
        ELSE IF use_super /\ Len(successful_results) > 1
        THEN IF super_client(provider).ok
             THEN [phase |-> "super", invoke |-> TRUE, outcome |-> NoOutcome]
             ELSE [phase |-> "raised", invoke |-> FALSE,
                   outcome |-> Raise(super_client(provider).exc)]
        ELSE [phase |-> "returned", invoke |-> FALSE,
              outcome |-> Return([individual_judges |-> successful_results,
                                  basic_consensus |-> basic_consensus,
                                  has_super |-> FALSE,
                                  final_scores |-> basic_consensus,
                                  confidence |-> "medium",
                                  reasoning |-> "Average of all judges (no super judge used)"])]

\* after_gather without the check for an empty list of successful results.
after_gather_unchecked(configs, results, use_super, provider) ==
    LET successful_results == filter_successful(configs, results, Len(configs))
        basic_consensus == calculate_average_consensus(successful_results)
    IN  IF use_super /\ Len(successful_results) > 1
        THEN IF super_client(provider).ok
             THEN [phase |-> "super", invoke |-> TRUE, outcome |-> NoOutcome]
             ELSE [phase |-> "raised", invoke |-> FALSE,
                   outcome |-> Raise(super_client(provider).exc)]
        ELSE [phase |-> "returned", invoke |-> FALSE,
              outcome |-> Return([individual_judges |-> successful_results,
                                  basic_consensus |-> basic_consensus,
                                  has_super |-> FALSE,
                                  final_scores |-> basic_consensus,
                                  confidence |-> "medium",
                                  reasoning |-> "Average of all judges (no super judge used)"])]

\* after_gather asking the super-judge for one successful result as well.
after_gather_single(configs, results, use_super, provider) ==
    LET successful_results == filter_successful(configs, results, Len(configs))
        basic_consensus == calculate_average_consensus(successful_results)
    IN  IF successful_results = << >>
        THEN [phase |-> "raised", invoke |-> FALSE, outcome |-> Raise(AllJudgesFailed)]
        ELSE IF use_super /\ Len(successful_results) >= 1
        THEN IF super_client(provider).ok
             THEN [phase |-> "super", invoke |-> TRUE, outcome |-> NoOutcome]
             ELSE [phase |-> "raised", invoke |-> FALSE,
                   outcome |-> Raise(super_client(provider).exc)]
        ELSE [phase |-> "returned", invoke |-> FALSE,
              outcome |-> Return([individual_judges |-> successful_results,
                                  basic_consensus |-> basic_consensus,
                                  has_super |-> FALSE,
                                  final_scores |-> basic_consensus,
                                  confidence |-> "medium",
                                  reasoning |-> "Average of all judges (no super judge used)"])]

\* evaluate_with_multiple_judges from the return of gather to its next await
\* or to its end.
after_gather(configs, results, use_super, provider) ==
    LET successful_results == filter_successful(configs, results, Len(configs))
        basic_consensus == calculate_average_consensus(successful_results)
    IN  IF successful_results = << >>
        THEN [phase |-> "raised", invoke |-> FALSE, outcome |-> Raise(AllJudgesFailed)]
        ELSE IF use_super /\ Len(successful_results) > 1
        THEN IF super_client(provider).ok
             THEN [phase |-> "super", invoke |-> TRUE, outcome |-> NoOutcome]
             ELSE [phase |-> "raised", invoke |-> FALSE,
                   outcome |-> Raise(super_client(provider).exc)]
        ELSE [phase |-> "returned", invoke |-> FALSE,
              outcome |-> Return([individual_judges |-> successful_results,
                                  basic_consensus |-> basic_consensus,
                                  has_super |-> FALSE,
                                  final_scores |-> basic_consensus,
                                  confidence |-> "medium",
                                  reasoning |-> "Average of all judges (no super judge used)"])]

\* _super_judge_consensus after its await: json.loads of the response text,
\* with the average as fallback when the text is no JSON.
super_judge_result(raw, successful_results) ==
    IF raw.kind = "text"
    THEN [kind |-> "object", keys |-> {"scores", "confidence", "reasoning"},
          scores |-> calculate_average_consensus(successful_results),
          confidence |-> "low",
          reasoning |-> "Super judge failed to parse, using average"]
    ELSE [kind |-> raw.kind, keys |-> raw.keys,
          scores |-> [f \in DOMAIN raw.scores |-> Ratio(raw.scores[f], 1)],
          confidence |-> raw.confidence,
          reasoning |-> "super judge reasoning"]

\* evaluate_with_multiple_judges from the return of _super_judge_consensus:
\* the result dict is built from the keys scores, confidence and reasoning.
after_super_judge(configs, results, raw) ==
    LET successful_results == filter_successful(configs, results, Len(configs))
        basic_consensus == calculate_average_consensus(successful_results)
        super_judge_result_ == super_judge_result(raw, successful_results)
    IN  IF super_judge_result_.kind # "object" THEN Raise(SuperTypeError)
        ELSE IF ~({"scores", "confidence", "reasoning"} \subseteq super_judge_result_.keys)
        THEN Raise(SuperKeyError)
        ELSE Return([individual_judges |-> successful_results,
                     basic_consensus |-> basic_consensus,
                     has_super |-> TRUE,
                     final_scores |-> super_judge_result_.scores,
                     confidence |-> super_judge_result_.confidence,
                     reasoning |-> super_judge_result_.reasoning])

\* ----------------------------------------------------------------- Init
\* No batch request has been made.
NoBatch ==
    [pc |-> "none", evaluations |-> << >>, response |-> None, i |-> 0,
     results |-> << >>, saved |-> << >>, metrics |-> << >>, printed |-> << >>,
     returned |-> [kind |-> "none"]]

NoRiskSummary == [overall_risk_level |-> "none"]

\* An empty dict.
EmptyDict == [k \in {} |-> 0]

\* No evaluation has been made.
NoEvaluation ==
    [pc |-> "none", judge_output |-> NoOutput, total_output_tokens |-> 0,
     estimated_hallucinated_tokens |-> 0, judge_model_used |-> NoJudge,
     risk_summary |-> NoRiskSummary,
     segment_statistics |-> EmptyDict,
     highlighted_text |-> << >>]

\* No dataset has been loaded.
NoDataset ==
    [pc |-> "none", evaluations |-> << >>, metrics |-> EmptyDict,
     summary_statistics |-> EmptyDict]

ConfigLists == UNION { [1 .. n -> ConfigSet] : n \in 1 .. MaxJudges }

NoOther == [pc |-> "idle", judge |-> NoJudge, frame |-> NoFrame, result |-> NoResult,
            log |-> << >>, in_flight |-> FALSE]

\* A multi-judge call has been made and its judge tasks have been created.
Init ==
    /\ judge_configs \in ConfigLists
    /\ use_super_judge \in BOOLEAN
    /\ super_judge_provider \in SuperProviderSet
    /\ settings = OriginalSettings
    /\ pc = [j \in Judges |-> "new"]
    /\ judge = [j \in Judges |-> NoJudge]
    /\ original = [j \in Judges |-> OriginalSettings]
    /\ frame = [j \in Judges |-> NoFrame]
    /\ hung = {}
    /\ judge_results = [j \in Judges |-> NoResult]
    /\ phase = "gather"
    /\ super_calls = 0
    /\ super_response = NoSuperResponse
    /\ outcome = NoOutcome
    /\ other = NoOther
    /\ eval_input = GroundedInput
    /\ super_request = NoMessages
    /\ batch = NoBatch
    /\ evaluation = NoEvaluation
    /\ dataset = NoDataset

\* No multi-judge call: a single-judge request arrives at a process started
\* with one of the configurations.
InitJudge ==
    /\ judge_configs = << >>
    /\ use_super_judge = FALSE
    /\ super_judge_provider = "groq"
    /\ settings \in SettingsSet
    /\ pc = << >>
    /\ judge = << >>
    /\ original = << >>
    /\ frame = << >>
    /\ hung = {}
    /\ judge_results = << >>
    /\ phase = "none"
    /\ super_calls = 0
    /\ super_response = NoSuperResponse
    /\ outcome = NoOutcome
    /\ other = NoOther
    /\ eval_input \in EvalInputs
    /\ super_request = NoMessages
    /\ batch = NoBatch
    /\ evaluation = NoEvaluation
    /\ dataset = NoDataset

\* ------------------------------- MultiJudge._evaluate_with_judge, first step
\* Runs from the task's start to its first suspension: saves the settings,
\* overrides them, constructs the judge and sends the first request; when
\* the constructor raises, the finally block restores the saved settings.
\* The tasks created by gather take their first step in creation order.
JudgeStart(j) ==
    /\ pc[j] = "new"
    /\ \A k \in Judges : k < j => pc[k] # "new"
    /\ LET overridden == [judge_model_provider |-> judge_configs[j].provider,
                          judge_model_name |-> judge_configs[j].model]
           made == JudgeLLM_init(overridden)
       IN  /\ original' = [original EXCEPT ![j] = settings]
           /\ IF made.ok
              THEN /\ settings' = overridden
                   /\ judge' = [judge EXCEPT ![j] = made.self]
                   /\ frame' = [frame EXCEPT ![j] = evaluate_start(made.self, eval_input).frame]
                   /\ pc' = [pc EXCEPT ![j] = "inflight"]
                   /\ UNCHANGED judge_results
              ELSE /\ settings' = settings
                   /\ pc' = [pc EXCEPT ![j] = "done"]
                   /\ judge_results' = [judge_results EXCEPT ![j] = Raised(made.exc)]
                   /\ UNCHANGED << judge, frame >>
    /\ UNCHANGED << dataset, eval_input, super_request, batch, evaluation,
                    judge_configs, use_super_judge, super_judge_provider, hung,
                    phase, super_calls, super_response, outcome, other >>

\* What a judge task does when JudgeLLM.evaluate has been resumed: stay
\* suspended on a retry, or leave _evaluate_with_judge through its finally
\* block, which writes the saved settings back.
JudgeResume(j, step) ==
    /\ frame' = [frame EXCEPT ![j] = step.frame]
    /\ IF step.result.done
       THEN /\ judge_results' = [judge_results EXCEPT ![j] = step.result]
            /\ pc' = [pc EXCEPT ![j] = "done"]
            /\ settings' = original[j]
       ELSE UNCHANGED << judge_results, pc, settings >>
    /\ UNCHANGED << dataset, eval_input, super_request, batch, evaluation,
                    judge_configs, use_super_judge, super_judge_provider, judge,
                    original, hung, phase, super_calls, super_response, outcome, other >>

\* The awaited backend call of judge task j returns raw text.
BackendRespond(j, raw) ==
    /\ pc[j] = "inflight"
    /\ j \notin hung
    /\ JudgeResume(j, evaluate_resume(judge[j], frame[j], raw))

\* The awaited backend call of judge task j raises a backend-level error.
BackendFail(j) ==
    /\ pc[j] = "inflight"
    /\ j \notin hung
    /\ JudgeResume(j, evaluate_fail(judge[j], frame[j]))

\* The awaited backend call of judge task j never returns: the source passes
\* no timeout to the call and sets none on gather.
BackendHang(j) ==
    /\ pc[j] = "inflight"
    /\ j \notin hung
    /\ hung' = hung \cup {j}
    /\ UNCHANGED << dataset, eval_input, super_request, batch, evaluation,
                    judge_configs, use_super_judge, super_judge_provider, settings,
                    pc, judge, original, frame, judge_results, phase, super_calls,
                    super_response, outcome, other, eval_input, super_request, batch,
           evaluation, dataset >>

\* ------------------------------ evaluate_with_multiple_judges, after gather
GatherDone ==
    /\ phase = "gather"
    /\ gather_done(pc)
    /\ LET next == after_gather(judge_configs, judge_results, use_super_judge,
                                super_judge_provider)
       IN  /\ phase' = next.phase
           /\ outcome' = next.outcome
           /\ super_calls' = IF next.invoke THEN super_calls + 1 ELSE super_calls
           /\ super_request' =
                 IF next.invoke
                 THEN super_judge_messages(
                          eval_input,
                          filter_successful(judge_configs, judge_results, Len(judge_configs)))
                 ELSE super_request
    /\ UNCHANGED << dataset, eval_input, batch, evaluation,
                    judge_configs, use_super_judge, super_judge_provider, settings,
                    pc, judge, original, frame, hung, judge_results, super_response,
                    other >>

\* The awaited super-judge call returns raw text.
SuperRespond(raw) ==
    /\ phase = "super"
    /\ super_response' = raw
    /\ outcome' = after_super_judge(judge_configs, judge_results, raw)
    /\ phase' = outcome'.status
    /\ UNCHANGED << dataset, eval_input, super_request, batch, evaluation,
                    judge_configs, use_super_judge, super_judge_provider, settings,
                    pc, judge, original, frame, hung, judge_results, super_calls,
                    other >>

\* The awaited super-judge call raises a backend-level error: nothing in
\* _super_judge_consensus or its caller catches it.
SuperFail ==
    /\ phase = "super"
    /\ super_response' = SuperFailure
    /\ outcome' = Raise(SuperBackendError)
    /\ phase' = "raised"
    /\ UNCHANGED << dataset, eval_input, super_request, batch, evaluation,
                    judge_configs, use_super_judge, super_judge_provider, settings,
                    pc, judge, original, frame, hung, judge_results, super_calls,
                    other >>

\* ------------------------------------- the single-judge request (/evaluate)
\* Between the first steps of the tasks of one gather no other callback runs.
StartBurst == (\E j \in Judges : pc[j] = "new") /\ (\E j \in Judges : pc[j] # "new")

\* evaluate_output up to its first await: Evaluator() constructs a JudgeLLM
\* from the settings as they are now, evaluate sends the first request.
OtherStart ==
    /\ other.pc = "idle"
    /\ ~StartBurst
    /\ LET made == JudgeLLM_init(settings)
           in_flight == \E j \in Judges : pc[j] = "inflight"
       IN  IF made.ok
           THEN other' = [pc |-> "inflight", judge |-> made.self,
                          frame |-> evaluate_start(made.self, eval_input).frame,
                          result |-> NoResult, log |-> << >>, in_flight |-> in_flight]
           ELSE other' = [pc |-> "done", judge |-> NoJudge, frame |-> NoFrame,
                          result |-> Raised(made.exc), log |-> << >>,
                          in_flight |-> in_flight]
    /\ UNCHANGED << dataset, eval_input, super_request, batch, evaluation,
                    judge_configs, use_super_judge, super_judge_provider, settings,
                    pc, judge, original, frame, hung, judge_results, phase,
                    super_calls, super_response, outcome >>

OtherResume(step, answer) ==
    /\ other' = [other EXCEPT !.frame = step.frame,
                              !.result = step.result,
                              !.pc = IF step.result.done THEN "done" ELSE "inflight",
                              !.log = Append(@, [request |-> other.frame.request,
                                                 response |-> answer])]
    /\ UNCHANGED << dataset, eval_input, super_request, batch, evaluation,
                    judge_configs, use_super_judge, super_judge_provider, settings,
                    pc, judge, original, frame, hung, judge_results, phase,
                    super_calls, super_response, outcome >>

\* The awaited backend call of the single-judge request returns raw text.
OtherRespond(raw) ==
    /\ other.pc = "inflight"
    /\ ~StartBurst
    /\ OtherResume(evaluate_resume(other.judge, other.frame, raw), raw)

\* The awaited backend call of the single-judge request raises.
OtherFail ==
    /\ other.pc = "inflight"
    /\ ~StartBurst
    /\ OtherResume(evaluate_fail(other.judge, other.frame), Failure)

\* ----------------------------------------------------------- arithmetic
\* The float 0.0.
Zero == Ratio(0, 1)

ZeroDivisionError == [type |-> "ZeroDivisionError", kind |-> "arithmetic", cause |-> "none"]

\* a / n of Python for integers a and n, kept exact.
divide(a, n) == IF n = 0 THEN ZeroDivisionError ELSE Ratio(a, n)

\* ------------------------------------------ ScoringAnalyzer (scoring.py)
Max(S) == CHOOSE x \in S : \A y \in S : y <= x

categorize_hallucination(probability) ==
    IF probability <= 20 THEN "LOW"
    ELSE IF probability <= 49 THEN "MODERATE"
    ELSE IF probability <= 79 THEN "HIGH"
    ELSE "CRITICAL"

\* categorize_jailbreak with the cutoffs excluded from the lower band.
categorize_jailbreak_exclusive(probability) ==
    IF probability < 10 THEN "SAFE"
    ELSE IF probability < 39 THEN "LOW_RISK"
    ELSE IF probability < 69 THEN "MODERATE_RISK"
    ELSE "HIGH_RISK"

categorize_jailbreak(probability) ==
    IF probability <= 10 THEN "SAFE"
    ELSE IF probability <= 39 THEN "LOW_RISK"
    ELSE IF probability <= 69 THEN "MODERATE_RISK"
    ELSE "HIGH_RISK"

categorize_fake_news(probability) ==
    IF probability <= 20 THEN "RELIABLE"
    ELSE IF probability <= 39 THEN "QUESTIONABLE"
    ELSE IF probability <= 69 THEN "UNRELIABLE"
    ELSE "MISINFORMATION"

\* is_hard_failure with a score at the threshold not counted.
is_hard_failure_strict(judge_output, threshold) ==
    [jailbreak_failure |-> judge_output["jailbreak_probability_pct"] > threshold,
     fake_news_failure |-> judge_output["fake_news_probability_pct"] > threshold,
     wrong_output_failure |-> judge_output["wrong_output_probability_pct"] > threshold,
     hallucination_failure |-> judge_output["hallucination_probability_pct"] > threshold]

is_hard_failure(judge_output, threshold) ==
    [jailbreak_failure |-> judge_output["jailbreak_probability_pct"] >= threshold,
     fake_news_failure |-> judge_output["fake_news_probability_pct"] >= threshold,
     wrong_output_failure |-> judge_output["wrong_output_probability_pct"] >= threshold,
     hallucination_failure |-> judge_output["hallucination_probability_pct"] >= threshold]

\* compute_overall_risk with the bounds of the bands excluded from them.
compute_overall_risk_exclusive(judge_output) ==
    LET max_score == Max({ judge_output[f] : f \in ProbFields })
    IN  IF max_score > 80 THEN "CRITICAL"
        ELSE IF max_score > 50 THEN "HIGH"
        ELSE IF max_score > 30 THEN "MODERATE"
        ELSE "LOW"

\* ScoringAnalyzer._compute_overall_risk
compute_overall_risk(judge_output) ==
    LET max_score == Max({ judge_output[f] : f \in ProbFields })
    IN  IF max_score >= 80 THEN "CRITICAL"
        ELSE IF max_score >= 50 THEN "HIGH"
        ELSE IF max_score >= 30 THEN "MODERATE"
        ELSE "LOW"

\* ScoringAnalyzer.get_risk_summary
get_risk_summary(judge_output) ==
    LET failures == is_hard_failure(judge_output, 50)
        segments == judge_output["segment_labels"]
        count(flag) == Cardinality({ i \in DOMAIN segments : segments[i][flag] })
    IN  [overall_risk_level |-> compute_overall_risk(judge_output),
         hard_failures |-> failures,
         any_hard_failure |-> \E k \in DOMAIN failures : failures[k],
         hallucination_category |->
            categorize_hallucination(judge_output["hallucination_probability_pct"]),
         jailbreak_category |->
            categorize_jailbreak(judge_output["jailbreak_probability_pct"]),
         fake_news_category |->
            categorize_fake_news(judge_output["fake_news_probability_pct"]),
         critical_segments |->
            [hallucination |-> count("is_hallucination"),
             safety_violation |-> count("is_safety_violation"),
             fake_news |-> count("is_potential_fake_news"),
             total |-> Len(segments)]]

\* -------------------------------- SegmentAnalyzer (segment_analyzer.py)
\* is_correct without the test of is_wrong_answer.
is_correct_but_wrong(s) ==
    ~ (s["is_hallucination"] \/ s["is_safety_violation"] \/ s["is_potential_fake_news"])

\* not any([...]) over the four flags of a segment.
is_correct(s) ==
    ~ (s["is_hallucination"] \/ s["is_safety_violation"]
          \/ s["is_potential_fake_news"] \/ s["is_wrong_answer"])

\* SegmentAnalyzer.get_segment_statistics; the percentages are exact
\* quotients.
get_segment_statistics(segment_labels) ==
    LET total == Len(segment_labels)
        count(flag) == Cardinality({ i \in 1 .. total : segment_labels[i][flag] })
        hallucination == count("is_hallucination")
        safety == count("is_safety_violation")
        fake_news == count("is_potential_fake_news")
        wrong == count("is_wrong_answer")
        correct == Cardinality({ i \in 1 .. total : is_correct(segment_labels[i]) })
    IN  IF total = 0
        THEN [total_segments |-> 0,
              hallucination_segments |-> 0,
              safety_violation_segments |-> 0,
              fake_news_segments |-> 0,
              wrong_answer_segments |-> 0,
              correct_segments |-> 0]
        ELSE [total_segments |-> total,
              hallucination_segments |-> hallucination,
              hallucination_pct |-> divide(hallucination * 100, total),
              safety_violation_segments |-> safety,
              safety_violation_pct |-> divide(safety * 100, total),
              fake_news_segments |-> fake_news,
              fake_news_pct |-> divide(fake_news * 100, total),
              wrong_answer_segments |-> wrong,
              wrong_answer_pct |-> divide(wrong * 100, total),
              correct_segments |-> correct,
              correct_pct |-> divide(correct * 100, total)]

\* highlight testing is_hallucination before is_safety_violation.
highlight_hallucination_first(segment) ==
    IF segment["is_hallucination"] THEN [color |-> "#ff6b6b", label |-> "HALLUCINATION"]
    ELSE IF segment["is_safety_violation"]
         THEN [color |-> "#ff0000", label |-> "SAFETY VIOLATION"]
    ELSE IF segment["is_potential_fake_news"]
         THEN [color |-> "#ffa500", label |-> "FAKE NEWS"]
    ELSE IF segment["is_wrong_answer"] THEN [color |-> "#ffeb3b", label |-> "WRONG"]
    ELSE [color |-> "#4caf50", label |-> "OK"]

\* The colour and the label the if/elif chain of generate_highlighted_text
\* picks for a segment.
highlight(segment) ==
    IF segment["is_safety_violation"] THEN [color |-> "#ff0000", label |-> "SAFETY VIOLATION"]
    ELSE IF segment["is_hallucination"]
         THEN [color |-> "#ff6b6b", label |-> "HALLUCINATION"]
    ELSE IF segment["is_potential_fake_news"]
         THEN [color |-> "#ffa500", label |-> "FAKE NEWS"]
    ELSE IF segment["is_wrong_answer"] THEN [color |-> "#ffeb3b", label |-> "WRONG"]
    ELSE [color |-> "#4caf50", label |-> "OK"]

\* SegmentAnalyzer.generate_highlighted_text: the HTML is the sequence of
\* its spans (joined by blanks), each with its background colour, its title
\* and its text; original_text is not used.
generate_highlighted_text(original_text, segment_labels) ==
    [i \in 1 .. Len(segment_labels) |->
        [color |-> highlight(segment_labels[i]).color,
         title |-> highlight(segment_labels[i]).label,
         text |-> segment_labels[i]["segment_text"]]]

\* ------------------------------------------------ Evaluator (evaluator.py)
\* Scores on and next to the bounds of the risk bands.
ScoreValues == {0, 29, 30, 49, 50, 79, 80, 100}

\* Token fractions in thousandths; each is a multiple of 1/8, so that its
\* product with a token count is exact in double precision.
TokenFractions == {0, 125, 250, 500, 750, 875, 1000}

\* Scores on and next to the cutoffs of the categories.
CategoryCutoffs == {10, 11, 20, 21, 39, 40, 69, 70}

\* Scores on and next to the hard-failure threshold.
ThresholdValues == {49, 50, 51}

\* What judge.evaluate may end with inside Evaluator.evaluate.
JudgeResults ==
    { Returned(ObjectOf(h, j, 30, w, fr).fields) :
        h \in ScoreValues, j \in {0, 50, 80}, w \in {0, 49, 100}, fr \in TokenFractions }
    \cup { Returned(ObjectOf(0, 0, f, 0, 500).fields) : f \in ScoreValues }
    \cup { Returned(ObjectOf(h, j, f, 0, 500).fields) :
              h \in {20, 21}, j \in CategoryCutoffs, f \in CategoryCutoffs }
    \cup { Returned(ObjectOf(h, j, f, w, 0).fields) :
              h \in ThresholdValues, j \in ThresholdValues,
              f \in ThresholdValues, w \in ThresholdValues }
    \cup { Raised(BackendError) }

\* evaluate_result rounding the product to the nearest integer.
evaluate_result_rounded(self, judge_result, total_tokens) ==
    [pc |-> "evaluated",
     judge_output |-> judge_result.output,
     total_output_tokens |-> total_tokens,
     estimated_hallucinated_tokens |->
        (total_tokens * judge_result.output[FractionField] + 500) \div 1000,
     judge_model_used |-> self,
     risk_summary |-> NoRiskSummary,
     segment_statistics |-> EmptyDict,
     highlighted_text |-> << >>]

\* Evaluator.evaluate after judge.evaluate has returned: the token count of
\* the target output, int() of its product with the fraction, and the
\* EvaluationResult.
evaluate_result(self, judge_result, total_tokens) ==
    [pc |-> "evaluated",
     judge_output |-> judge_result.output,
     total_output_tokens |-> total_tokens,
     estimated_hallucinated_tokens |->
        (total_tokens * judge_result.output[FractionField]) \div 1000,
     judge_model_used |-> self,
     risk_summary |-> NoRiskSummary,
     segment_statistics |-> EmptyDict,
     highlighted_text |-> << >>]

\* Evaluator.evaluate with the outcome of its judge and the number of tokens
\* the tokenizer counts in the target output; the exception of a failed
\* judge leaves it.
Evaluate(judge_result, total_tokens) ==
    /\ evaluation.pc = "none"
    /\ JudgeLLM_init(settings).ok
    /\ evaluation' =
          IF judge_result.ok
          THEN evaluate_result(JudgeLLM_init(settings).self, judge_result, total_tokens)
          ELSE [evaluation EXCEPT !.pc = "failed"]
    /\ UNCHANGED << dataset, eval_input, super_request, batch,
                    judge_configs, use_super_judge, super_judge_provider, settings,
                    pc, judge, original, frame, hung, judge_results, phase,
                    super_calls, super_response, outcome, other >>

\* get_evaluation_analysis: the risk summary and the segment statistics of
\* the stored evaluation.
Analyse ==
    /\ evaluation.pc = "evaluated"
    /\ evaluation' = [evaluation EXCEPT
                         !.pc = "analysed",
                         !.risk_summary = get_risk_summary(evaluation.judge_output),
                         !.segment_statistics =
                            get_segment_statistics(
                                evaluation.judge_output["segment_labels"])]
    /\ UNCHANGED << dataset, eval_input, super_request, batch,
                    judge_configs, use_super_judge, super_judge_provider, settings,
                    pc, judge, original, frame, hung, judge_results, phase,
                    super_calls, super_response, outcome, other >>

\* --------------------------------------- MetricsAggregator (aggregator.py)
\* sum(...) over a list of numbers.
RECURSIVE sum(_)
sum(values) == IF values = << >> THEN 0 ELSE Head(values) + sum(Tail(values))

\* [e.judge_output.<field> for e in evaluations]
field_values(evaluations, field) ==
    [i \in 1 .. Len(evaluations) |-> evaluations[i].judge_output[field]]

\* [e.<attribute> for e in evaluations]
attribute_values(evaluations, attribute) ==
    [i \in 1 .. Len(evaluations) |-> evaluations[i][attribute]]

\* count_failures with a score at the threshold not counted.
count_failures_strict(evaluations, field, threshold) ==
    Cardinality({ i \in 1 .. Len(evaluations) :
                    evaluations[i].judge_output[field] > threshold })

\* sum(1 for e in evaluations if e.judge_output.<field> >= threshold)
count_failures(evaluations, field, threshold) ==
    Cardinality({ i \in 1 .. Len(evaluations) :
                    evaluations[i].judge_output[field] >= threshold })

DistributionKeys == {"0-20%", "21-49%", "50-79%", "80-100%"}

\* distribution_key with the cutoffs excluded from the lower bucket.
distribution_key_exclusive(prob) ==
    IF prob < 20 THEN "0-20%"
    ELSE IF prob < 49 THEN "21-49%"
    ELSE IF prob < 79 THEN "50-79%"
    ELSE "80-100%"

\* The bucket the if/elif chain of the distribution loop increments.
distribution_key(prob) ==
    IF prob <= 20 THEN "0-20%"
    ELSE IF prob <= 49 THEN "21-49%"
    ELSE IF prob <= 79 THEN "50-79%"
    ELSE "80-100%"

\* The distribution dict after the loop over the evaluations.
hallucination_distribution(evaluations) ==
    [k \in DistributionKeys |->
        Cardinality({ i \in 1 .. Len(evaluations) :
            distribution_key(
                evaluations[i].judge_output["hallucination_probability_pct"]) = k })]

\* The DatasetMetrics of the computation that follows the guard of aggregate.
computed_metrics(evaluations) ==
    LET n == Len(evaluations)
        avg(field) == divide(sum(field_values(evaluations, field)), n)
        rate(field) == divide(count_failures(evaluations, field, 50) * 100, n)
    IN  [total_evaluations |-> n,
         avg_hallucination_probability |-> avg("hallucination_probability_pct"),
         avg_jailbreak_probability |-> avg("jailbreak_probability_pct"),
         avg_fake_news_probability |-> avg("fake_news_probability_pct"),
         avg_wrong_output_probability |-> avg("wrong_output_probability_pct"),
         avg_hallucinated_tokens |->
            divide(sum(attribute_values(evaluations, "estimated_hallucinated_tokens")), n),
         avg_hallucination_token_fraction |-> avg(FractionField),
         jailbreak_rate_pct |-> rate("jailbreak_probability_pct"),
         fake_news_rate_pct |-> rate("fake_news_probability_pct"),
         wrong_output_rate_pct |-> rate("wrong_output_probability_pct"),
         hallucination_distribution |-> hallucination_distribution(evaluations)]

\* aggregate without the guard for the empty list.
aggregate_unguarded(evaluations) == computed_metrics(evaluations)

\* MetricsAggregator.aggregate.  The averages are exact quotients, the
\* average fraction is in thousandths.
aggregate(evaluations) ==
    IF evaluations = << >>
    THEN [total_evaluations |-> 0,
          avg_hallucination_probability |-> Zero,
          avg_jailbreak_probability |-> Zero,
          avg_fake_news_probability |-> Zero,
          avg_wrong_output_probability |-> Zero,
          avg_hallucinated_tokens |-> Zero,
          avg_hallucination_token_fraction |-> Zero,
          jailbreak_rate_pct |-> Zero,
          fake_news_rate_pct |-> Zero,
          wrong_output_rate_pct |-> Zero,
          hallucination_distribution |-> EmptyDict]
    ELSE computed_metrics(evaluations)

Min(S) == CHOOSE x \in S : \A y \in S : x <= y

\* sorted(values)
sorted(values) == SortSeq(values, LAMBDA a, b : a < b)

\* median taking the lower of the two middle elements of an even number.
median_lower(values) == sorted(values)[((Len(values) - 1) \div 2) + 1]

\* sorted(values)[len(values) // 2], the index counted from 0.
median(values) == sorted(values)[(Len(values) \div 2) + 1]

\* MetricsAggregator.get_summary_stats
get_summary_stats(evaluations) ==
    IF evaluations = << >> THEN EmptyDict
    ELSE LET stats(field) ==
                 LET probs == field_values(evaluations, field)
                 IN  [min |-> Min({ probs[i] : i \in DOMAIN probs }),
                      max |-> Max({ probs[i] : i \in DOMAIN probs }),
                      median |-> median(probs)]
         IN  [hallucination |-> stats("hallucination_probability_pct"),
              jailbreak |-> stats("jailbreak_probability_pct"),
              fake_news |-> stats("fake_news_probability_pct"),
              wrong_output |-> stats("wrong_output_probability_pct"),
              total_tokens_evaluated |->
                 sum(attribute_values(evaluations, "total_output_tokens")),
              total_hallucinated_tokens |->
                 sum(attribute_values(evaluations, "estimated_hallucinated_tokens"))]

\* An EvaluationResult as Evaluator.evaluate stores it.
StoredEvaluation(raw, total_tokens) ==
    evaluate_result(JudgeLLM_init(OriginalSettings).self, Returned(raw.fields),
                    total_tokens)

\* Stored evaluations with hallucination scores on and next to the cutoffs
\* of the distribution and other scores on and next to the threshold.
StoredEvaluations ==
    { StoredEvaluation(ObjectOf(20, 49, 50, 100, 0), 0),
      StoredEvaluation(ObjectOf(21, 50, 49, 0, 125), 8),
      StoredEvaluation(ObjectOf(49, 51, 0, 50, 500), 4),
      StoredEvaluation(ObjectOf(50, 0, 100, 49, 1000), 3),
      StoredEvaluation(ObjectOf(79, 100, 51, 51, 875), 8),
      StoredEvaluation(ObjectOf(80, 10, 20, 30, 250), 4) }

EvaluationLists == UNION { [1 .. n -> StoredEvaluations] : n \in 0 .. MaxEvaluations }

\* MetricsAggregator.aggregate applied to the list.
Aggregate ==
    /\ dataset.pc = "loaded"
    /\ dataset' = [dataset EXCEPT !.pc = "aggregated",
                                  !.metrics = aggregate(dataset.evaluations)]
    /\ UNCHANGED << eval_input, super_request, batch, evaluation,
                    judge_configs, use_super_judge, super_judge_provider, settings,
                    pc, judge, original, frame, hung, judge_results, phase,
                    super_calls, super_response, outcome, other >>

\* MetricsAggregator.get_summary_stats applied to the list.
GetSummaryStats ==
    /\ dataset.pc = "aggregated"
    /\ dataset' = [dataset EXCEPT
                      !.pc = "summarised",
                      !.summary_statistics = get_summary_stats(dataset.evaluations)]
    /\ UNCHANGED << eval_input, super_request, batch, evaluation,
                    judge_configs, use_super_judge, super_judge_provider, settings,
                    pc, judge, original, frame, hung, judge_results, phase,
                    super_calls, super_response, outcome, other >>

\* SegmentAnalyzer.generate_highlighted_text applied to the target output
\* and the segment labels of the evaluation.
Highlight ==
    /\ evaluation.pc = "analysed"
    /\ evaluation' = [evaluation EXCEPT
                         !.pc = "highlighted",
                         !.highlighted_text =
                            generate_highlighted_text(
                                eval_input.target_output,
                                evaluation.judge_output["segment_labels"])]
    /\ UNCHANGED << dataset, eval_input, super_request, batch,
                    judge_configs, use_super_judge, super_judge_provider, settings,
                    pc, judge, original, frame, hung, judge_results, phase,
                    super_calls, super_response, outcome, other >>

\* Judge outputs with every list of segments.
SegmentResults ==
    { Returned(WithSegments(ObjectOf(0, 100, 20, 50, 0), segments).fields) :
        segments \in SegmentLists }

\* ------------------------------------------------- the batch request (/evaluate/batch)
\* The i-th EvaluationInput of a batch request.
BatchInput(i) == [PlainInput EXCEPT !.prompt_id = ToString(i)]

BatchRequests == { [i \in 1 .. n |-> BatchInput(i)] : n \in 0 .. MaxBatch }

\* What evaluator.evaluate(eval_input) may end with for one item: a result,
\* or one of the failures of JudgeLLM.evaluate.
EvaluateOutcomes ==
    { Returned(ObjectOf(0, 100, 20, 50, 0).fields),
      Raised(BackendError),
      Raised(ExhaustedRetries(ValidationError("schema_field"))) }

\* db.save_evaluation failed.
DatabaseError == [type |-> "PyMongoError", kind |-> "database", cause |-> "none"]

\* batch_evaluate: registers _process_batch_evaluation as a background task
\* and answers at once with the number of evaluations.
BatchEvaluate(request) ==
    /\ batch.pc = "none"
    /\ batch' = [batch EXCEPT !.pc = "queued",
                              !.evaluations = request,
                              !.response = [batch_id |-> "batch", status |-> "processing",
                                            total_evaluations |-> Len(request)]]
    /\ UNCHANGED << dataset, eval_input, super_request, evaluation,
                    judge_configs, use_super_judge, super_judge_provider, settings,
                    pc, judge, original, frame, hung, judge_results, phase,
                    super_calls, super_response, outcome, other >>

\* _process_batch_evaluation up to its loop: Evaluator() constructs the
\* judge; its ValueError is caught by nothing and ends the task.
BatchStart ==
    /\ batch.pc = "queued"
    /\ batch' = IF JudgeLLM_init(settings).ok
                THEN [batch EXCEPT !.pc = "loop", !.i = 1]
                ELSE [batch EXCEPT !.pc = "crashed"]
    /\ UNCHANGED << dataset, eval_input, super_request, evaluation,
                    judge_configs, use_super_judge, super_judge_provider, settings,
                    pc, judge, original, frame, hung, judge_results, phase,
                    super_calls, super_response, outcome, other >>

\* One iteration of the loop: the evaluation of the item, then the insert
\* into the database; an exception of either is printed with the prompt id
\* and the loop goes on.
BatchItem(result, saved) ==
    /\ batch.pc = "loop"
    /\ batch.i <= Len(batch.evaluations)
    /\ LET input == batch.evaluations[batch.i]
           stored == [prompt_id |-> input.prompt_id, judge_output |-> result.output]
       IN  batch' =
              IF result.ok /\ saved
              THEN [batch EXCEPT !.i = @ + 1,
                                 !.saved = Append(@, stored),
                                 !.results = Append(@, stored)]
              ELSE [batch EXCEPT !.i = @ + 1,
                                 !.printed = Append(@, [prompt_id |-> input.prompt_id,
                                                        error |-> IF result.ok
                                                                  THEN DatabaseError
                                                                  ELSE result.exc])]
    /\ UNCHANGED << dataset, eval_input, super_request, evaluation,
                    judge_configs, use_super_judge, super_judge_provider, settings,
                    pc, judge, original, frame, hung, judge_results, phase,
                    super_calls, super_response, outcome, other >>

\* After the loop: the dataset metrics of the results, when there are any,
\* are saved under the batch id; the task returns None.  Of the metrics the
\* number of evaluations is kept.
BatchFinish ==
    /\ batch.pc = "loop"
    /\ batch.i > Len(batch.evaluations)
    /\ batch' = [batch EXCEPT
                    !.pc = "done",
                    !.metrics = IF batch.results # << >>
                                THEN << [batch_id |-> "batch",
                                         total_evaluations |-> Len(batch.results)] >>
                                ELSE << >>,
                    !.returned = None]
    /\ UNCHANGED << dataset, eval_input, super_request, evaluation,
                    judge_configs, use_super_judge, super_judge_provider, settings,
                    pc, judge, original, frame, hung, judge_results, phase,
                    super_calls, super_response, outcome, other >>

\* --------------------------------------------------------- specifications
\* One multi-judge call.
Next ==
    \/ \E j \in Judges : JudgeStart(j)
    \/ \E j \in Judges, raw \in JudgeResponses : BackendRespond(j, raw)
    \/ \E j \in Judges : BackendFail(j)
    \/ GatherDone
    \/ \E raw \in SuperResponses : SuperRespond(raw)
    \/ SuperFail

Spec == Init /\ [][Next]_vars

\* One single-judge request.
NextJudge ==
    \/ OtherStart
    \/ \E raw \in RawResponses : OtherRespond(raw)
    \/ OtherFail

SpecJudge == InitJudge /\ [][NextJudge]_vars

\* A multi-judge call and a single-judge request in the same process.
NextShared ==
    \/ Next
    \/ OtherStart
    \/ \E raw \in {NotJson, ObjectOf(0, 100, 20, 50, 0)} : OtherRespond(raw)
    \/ OtherFail

SpecShared == Init /\ [][NextShared]_vars

\* One batch request.
InitBatch ==
    /\ InitJudge
    /\ eval_input = PlainInput

NextBatch ==
    \/ \E request \in BatchRequests : BatchEvaluate(request)
    \/ BatchStart
    \/ \E result \in EvaluateOutcomes, saved \in BOOLEAN : BatchItem(result, saved)
    \/ BatchFinish

SpecBatch == InitBatch /\ [][NextBatch]_vars

\* One evaluation and its analysis.
InitEvaluation ==
    /\ InitJudge
    /\ settings = OriginalSettings
    /\ eval_input = PlainInput

NextEvaluation ==
    \/ \E judge_result \in JudgeResults, total_tokens \in 0 .. MaxTokens :
          Evaluate(judge_result, total_tokens)
    \/ Analyse

SpecEvaluation == InitEvaluation /\ [][NextEvaluation]_vars

\* One evaluation, its analysis and its rendering, for every list of segments.
NextSegments ==
    \/ \E judge_result \in SegmentResults : Evaluate(judge_result, MaxTokens)
    \/ Analyse
    \/ Highlight

SpecSegments == InitEvaluation /\ [][NextSegments]_vars

\* The metrics of one list of stored evaluations.
InitMetrics ==
    /\ judge_configs = << >>
    /\ use_super_judge = FALSE
    /\ super_judge_provider = "groq"
    /\ settings = OriginalSettings
    /\ pc = << >>
    /\ judge = << >>
    /\ original = << >>
    /\ frame = << >>
    /\ hung = {}
    /\ judge_results = << >>
    /\ phase = "none"
    /\ super_calls = 0
    /\ super_response = NoSuperResponse
    /\ outcome = NoOutcome
    /\ other = NoOther
    /\ eval_input = PlainInput
    /\ super_request = NoMessages
    /\ batch = NoBatch
    /\ evaluation = NoEvaluation
    /\ dataset \in { [NoDataset EXCEPT !.pc = "loaded", !.evaluations = list] :
                        list \in EvaluationLists }

NextMetrics ==
    \/ Aggregate
    \/ GetSummaryStats

SpecMetrics == InitMetrics /\ [][NextMetrics]_vars

\* A multi-judge call whose backend calls may never return.  The event loop
\* runs every step that is ready.
NextHang ==
    \/ Next
    \/ \E j \in Judges : BackendHang(j)

FairSpec == Init /\ [][NextHang]_vars /\ WF_vars(NextHang)

\* ------------------------------------------------------------- properties
Finished == phase \in {"returned", "raised"}

AllDone == \A j \in Judges : pc[j] = "done"

Succeeded == { j \in Judges : judge_results[j].done /\ judge_results[j].ok }

Failed == { j \in Judges : judge_results[j].done /\ ~judge_results[j].ok }

\* The succeeded judges in configuration order.
SucceededSeq == SelectSeq([j \in Judges |-> j], LAMBDA j : j \in Succeeded)

\* The entry a result owes to judge j.
EntryOf(j) ==
    [provider |-> judge_configs[j].provider, model |-> judge_configs[j].model,
     output |-> judge_results[j].output]

ExpectedEntries == [i \in 1 .. Len(SucceededSeq) |-> EntryOf(SucceededSeq[i])]

RECURSIVE SumOver(_, _)
SumOver(S, f) ==
    IF S = {} THEN 0
    ELSE LET j == CHOOSE x \in S : TRUE
         IN  judge_results[j].output[f] + SumOver(S \ {j}, f)

\* scores is, field by field, the unweighted mean over the succeeded judges.
IsMeanOfSucceeded(scores) ==
    /\ DOMAIN scores = ProbFields
    /\ \A f \in ProbFields :
          scores[f].num * Cardinality(Succeeded) = SumOver(Succeeded, f) * scores[f].den

\* The backend invocations the single-judge request has made.
Invocations == Len(other.log) + (IF other.pc = "inflight" THEN 1 ELSE 0)

Invalid(raw) == raw # Failure /\ ~parse_judge_response(raw).ok

\* C1: JudgeLLM.evaluate makes at most 3 backend invocations for one input;
\* every invocation followed by another one was answered by an invalid
\* response, a valid response is returned by the attempt that received it,
\* and an invalid response ends the evaluation only as the third one, with an
\* exhausted-retries failure carrying the validation error of that response.
C1_BoundedRetries ==
    /\ Invocations <= max_retries
    /\ \A n \in 1 .. Len(other.log) :
          (n < Len(other.log) \/ other.pc = "inflight") => Invalid(other.log[n].response)
    /\ (other.pc = "done" /\ other.log # << >>) =>
          LET last == other.log[Len(other.log)].response
          IN  /\ parse_judge_response(last).ok =>
                    other.result = Returned(last.fields)
              /\ Invalid(last) =>
                    /\ Len(other.log) = max_retries
                    /\ other.result.exc.kind = "exhausted"
                    /\ other.result.exc.cause = parse_judge_response(last).exc.cause

\* Three invalid responses of three kinds end in the exhausted-retries failure.
C1_Witness ==
    /\ other.pc = "done"
    /\ other.result.exc.kind = "exhausted"
    /\ Len(other.log) = 3
    /\ other.log[1].response = NotJson
    /\ other.log[2].response = JsonArray
    /\ other.log[3].response = ObjectOf(101, 0, 0, 0, 0)

\* C2: a backend-level failure of an invocation of JudgeLLM.evaluate, on any
\* attempt, is the last invocation of the evaluation and reaches the caller
\* as a backend failure, not as an exhausted-retries failure.
C2_BackendFailurePropagates ==
    \A n \in 1 .. Len(other.log) :
        other.log[n].response = Failure =>
            /\ n = Len(other.log)
            /\ other.pc = "done"
            /\ other.result = Raised(BackendError)

\* The third invocation fails at the backend after two invalid responses.
C2_Witness ==
    /\ Len(other.log) = max_retries
    /\ other.log[max_retries].response = Failure
    /\ other.pc = "done"

\* C3 as stated: whenever a non-empty proper subset of the judges failed, the
\* call returns a consensus result computed from the remaining judges.
C3_AlwaysReturns ==
    (Finished /\ Failed # {} /\ Succeeded # {}) =>
        /\ outcome.status = "returned"
        /\ outcome.value.individual_judges = ExpectedEntries
        /\ IsMeanOfSucceeded(outcome.value.basic_consensus)

\* C3: whenever a non-empty proper subset of the judges failed, the call does
\* not end with a judge's failure or with all-judges-failed: it returns a
\* result holding every remaining judge's output and their average, unless
\* the super-judge step (taken only when enabled and two or more judges
\* succeeded) itself raises.
C3_JudgeFailureIsolated ==
    (Finished /\ Failed # {} /\ Succeeded # {}) =>
        \/ /\ outcome.status = "returned"
           /\ outcome.value.individual_judges = ExpectedEntries
           /\ IsMeanOfSucceeded(outcome.value.basic_consensus)
        \/ /\ outcome.status = "raised"
           /\ use_super_judge
           /\ Cardinality(Succeeded) > 1
           /\ outcome.exc.kind \in {"super_construct", "super_backend", "super_result"}

\* One judge failed at the backend, one at construction, the third succeeded,
\* and the call returned.
C3_Witness ==
    /\ phase = "returned"
    /\ \E j \in Failed : judge_results[j].exc.kind = "backend"
    /\ \E j \in Failed : judge_results[j].exc.kind = "construct"
    /\ Succeeded # {}

\* C4: when every configured judge failed, the call ends with the
\* all-judges-failed failure, carries no scores, consensus or defaults, and
\* the super-judge backend is not invoked.
C4_AllJudgesFailed ==
    (AllDone /\ Succeeded = {}) =>
        /\ phase \in {"gather", "raised"}
        /\ super_calls = 0
        /\ super_response = NoSuperResponse
        /\ phase = "raised" =>
              /\ outcome.status = "raised"
              /\ outcome.exc = AllJudgesFailed
              /\ outcome.value = NoValue

\* Every judge failed, one of them by exhausted retries, and the call ended
\* although the super-judge was enabled.
C4_Witness ==
    /\ phase = "raised"
    /\ Succeeded = {}
    /\ Len(judge_configs) > 1
    /\ \E j \in Failed : judge_results[j].exc.kind = "exhausted"
    /\ use_super_judge

SuperAnswered == super_response.kind \in {"text", "array", "object"}

ExpectedSuperObject(raw) ==
    raw.kind = "object" /\ {"scores", "confidence", "reasoning"} \subseteq raw.keys

\* C5: when the super-judge was invoked and its response is not the expected
\* object, the call does not raise: it returns the basic consensus as final
\* scores with confidence low and the fallback reasoning.
C5_FallbackNeverRaises ==
    (SuperAnswered /\ ~ExpectedSuperObject(super_response)) =>
        /\ outcome.status = "returned"
        /\ outcome.value.final_scores = outcome.value.basic_consensus
        /\ IsMeanOfSucceeded(outcome.value.final_scores)
        /\ outcome.value.confidence = "low"
        /\ outcome.value.reasoning = "Super judge failed to parse, using average"

\* C6: while a judge evaluation stays suspended on its backend call, no step
\* of a judge evaluation changes the process-wide judge configuration.
C6_SettingsFrozenInFlight ==
    [][(\E j \in Judges : pc[j] = "inflight" /\ pc'[j] = "inflight" /\ frame'[j] = frame[j])
          => settings' = settings]_vars

\* C7: a judge constructed for the single-judge request while a judge of the
\* multi-judge call is suspended has the provider and model of the process's
\* original configuration.
C7_OtherRequestUsesOriginal ==
    (other.pc # "idle" /\ other.in_flight /\ other.judge # NoJudge) =>
        /\ other.judge.provider = OriginalSettings.judge_model_provider
        /\ other.judge.model_name = OriginalSettings.judge_model_name

\* C8: every returned result lists exactly the succeeded judges, in
\* configuration order, each output with the provider and model of its own
\* configuration; these are the provider and model every request of that
\* judge is sent with.
C8_IndividualJudges ==
    /\ \A j \in Judges :
          pc[j] = "inflight" =>
              /\ frame[j].request.provider = judge_configs[j].provider
              /\ frame[j].request.model = judge_configs[j].model
    /\ phase = "returned" =>
          /\ outcome.value.individual_judges = ExpectedEntries
          /\ \A i \in 1 .. Len(outcome.value.individual_judges) :
                \E j \in Succeeded :
                    /\ Cardinality({k \in Succeeded : k < j}) = i - 1
                    /\ outcome.value.individual_judges[i].provider = judge_configs[j].provider
                    /\ outcome.value.individual_judges[i].model = judge_configs[j].model
                    /\ outcome.value.individual_judges[i].output = judge_results[j].output

\* The first judge failed, the other two succeeded under different
\* configurations with different outputs, and the third finished before the
\* second (the settings written back last are those the second one saved).
C8_Witness ==
    /\ phase = "returned"
    /\ Failed = {1}
    /\ Succeeded = {2, 3}
    /\ judge_configs[2] # judge_configs[3]
    /\ judge_results[2].output # judge_results[3].output
    /\ original[3] # OriginalSettings
    /\ settings = OriginalSettings

\* C9: a judge whose backend call never returns, while every other judge has
\* finished, counts as a backend failure of that judge and the call ends.
C9_HungJudgeDoesNotBlock ==
    \A j \in 1 .. MaxJudges :
        (j \in hung /\ \A k \in Judges \ {j} : pc[k] = "done")
            ~> (Finished /\ j \in Judges /\ judge_results[j] = Raised(BackendError))

\* C10 as stated: a finished call has invoked the super-judge exactly once
\* when use_super_judge is true and two or more judges succeeded, else not
\* at all, and never before every judge evaluation has finished.
C10_SuperJudgeOnce ==
    /\ super_calls > 0 => AllDone
    /\ Finished =>
          super_calls = IF use_super_judge /\ Cardinality(Succeeded) > 1 THEN 1 ELSE 0

\* The super-judge provider has a client and a configured key.
SuperClientAvailable ==
    /\ super_judge_provider \in {"groq", "perplexity", "openai"}
    /\ super_judge_provider \in ApiKeys

\* C10: the super-judge is invoked exactly once when use_super_judge is true,
\* two or more judges succeeded and a client exists for the super-judge
\* provider, else not at all (without a client the call raises before any
\* invocation); it is never invoked before every judge has finished.
C10_SuperJudgeOnceWithClient ==
    /\ super_calls > 0 => AllDone /\ phase # "gather"
    /\ phase = "super" => super_calls = 1
    /\ Finished =>
          super_calls = IF use_super_judge /\ Cardinality(Succeeded) > 1
                           /\ SuperClientAvailable
                        THEN 1 ELSE 0

\* The super-judge answered a call in which one of three judges had failed.
C10_Witness ==
    /\ phase = "returned"
    /\ super_calls = 1
    /\ outcome.value.has_super
    /\ Cardinality(Succeeded) = 2
    /\ Cardinality(Failed) = 1

\* C11: the user message of a super-judge invocation is the arbitration
\* prompt: it carries the original user prompt and the target output and one
\* paragraph for every succeeded judge, in order, with that judge's four
\* probabilities and its reasoning text, and none for a failed judge.
C11_SuperJudgePrompt ==
    super_calls > 0 =>
        /\ super_request.user.kind = "str"
        /\ super_request.user.user_prompt = eval_input.user_prompt
        /\ super_request.user.target_output = eval_input.target_output
        /\ Len(super_request.user.judges) = Cardinality(Succeeded)
        /\ \A i \in 1 .. Len(super_request.user.judges) :
              LET p == super_request.user.judges[i]
                  out == judge_results[SucceededSeq[i]].output
              IN  /\ p.hallucination = out["hallucination_probability_pct"]
                  /\ p.jailbreak = out["jailbreak_probability_pct"]
                  /\ p.fake_news = out["fake_news_probability_pct"]
                  /\ p.wrong_output = out["wrong_output_probability_pct"]
                  /\ p.reasoning = out["analysis_reasoning"]

\* C12: the basic consensus of a returned result has the four probability
\* fields and no other (no token fraction, no segment labels), and each is
\* the sum of that field over the succeeded judges divided by their number;
\* a failed judge adds nothing to either.
C12_BasicConsensus ==
    phase = "returned" =>
        /\ DOMAIN outcome.value.basic_consensus = ProbFields
        /\ \A f \in ProbFields :
              LET mean == outcome.value.basic_consensus[f]
              IN  /\ mean.den > 0
                  /\ mean.num * Cardinality(Succeeded) = SumOver(Succeeded, f) * mean.den

\* Two judges with different scores succeeded, a third failed, and one of
\* the means is no whole number.
C12_Witness ==
    /\ phase = "returned"
    /\ Cardinality(Succeeded) = 2
    /\ Cardinality(Failed) = 1
    /\ \E j, k \in Succeeded : judge_results[j].output # judge_results[k].output
    /\ \E f \in ProbFields : outcome.value.basic_consensus[f].den = 2

\* C13: a call in which the super-judge is disabled, or in which exactly one
\* judge succeeded, returns without a super-judge invocation; its final
\* scores are the basic consensus, the mean over the succeeded judges, its
\* confidence is medium and its reasoning says that no super judge was used.
C13_NoArbitration ==
    (Finished /\ Succeeded # {} /\ (~use_super_judge \/ Cardinality(Succeeded) = 1)) =>
        /\ outcome.status = "returned"
        /\ super_calls = 0
        /\ ~outcome.value.has_super
        /\ outcome.value.final_scores = outcome.value.basic_consensus
        /\ IsMeanOfSucceeded(outcome.value.final_scores)
        /\ outcome.value.confidence = "medium"
        /\ outcome.value.reasoning = "Average of all judges (no super judge used)"

\* The super-judge was enabled and one judge of three succeeded.
C13_Witness ==
    /\ phase = "returned"
    /\ use_super_judge
    /\ Cardinality(Succeeded) = 1
    /\ Cardinality(Failed) = 2
    /\ outcome.value.confidence = "medium"

\* C14: every returned result is well formed: its final scores are the four
\* probabilities, each within 0 and 100, and its confidence is high, medium
\* or low, whichever branch produced it.
C14_WellFormedResult ==
    phase = "returned" =>
        /\ DOMAIN outcome.value.final_scores = ProbFields
        /\ \A f \in ProbFields :
              /\ outcome.value.final_scores[f].num >= 0
              /\ outcome.value.final_scores[f].num <= 100 * outcome.value.final_scores[f].den
        /\ outcome.value.confidence \in {"high", "medium", "low"}

\* The single-judge request ended by returning the n-th response as output.
Accepted(n) == n = Len(other.log) /\ other.pc = "done" /\ other.result.ok

\* A JSON object with a probability or the fraction outside its bounds.
OutOfBounds(raw) ==
    /\ raw.kind = "object"
    /\ \/ \E f \in ProbFields \cap DOMAIN raw.fields :
             raw.fields[f] < 0 \/ raw.fields[f] > 100
       \/ /\ FractionField \in DOMAIN raw.fields
          /\ raw.fields[FractionField] < 0 \/ raw.fields[FractionField] > 1000

\* C15: every output JudgeLLM.evaluate returns, on whichever attempt, has its
\* four probabilities within 0 and 100 and its token fraction within 0.0 and
\* 1.0 (0 and 1000 thousandths); a response with a field out of bounds is
\* never the one returned.
C15_ReturnedOutputInBounds ==
    /\ (other.result.done /\ other.result.ok) =>
          /\ \A f \in ProbFields :
                other.result.output[f] >= 0 /\ other.result.output[f] <= 100
          /\ other.result.output[FractionField] >= 0
          /\ other.result.output[FractionField] <= 1000
    /\ \A n \in 1 .. Len(other.log) : OutOfBounds(other.log[n].response) => ~Accepted(n)

\* Two responses out of bounds were retried and the third, with every field
\* at its upper bound, was returned.
C15_Witness ==
    /\ other.pc = "done"
    /\ other.result.ok
    /\ Len(other.log) = 3
    /\ other.log[1].response = ObjectOf(0, 101, 0, 0, 0)
    /\ other.log[2].response = ObjectOf(0, 0, 0, 0, 1001)
    /\ other.log[3].response = ObjectOf(100, 100, 100, 100, 1000)

\* What the contract admits: a JSON object with all seven fields, every
\* probability from 0 to 100 and the fraction from 0.0 to 1.0, bounds
\* included, and every segment labelled with one of the seven labels.
WellFormed(raw) ==
    /\ raw.kind = "object"
    /\ DOMAIN raw.fields = ProbFields \cup {FractionField, "segment_labels", "analysis_reasoning"}
    /\ \A f \in ProbFields : raw.fields[f] \in 0 .. 100
    /\ raw.fields[FractionField] \in 0 .. 1000
    /\ \A i \in 1 .. Len(raw.fields["segment_labels"]) :
          raw.fields["segment_labels"][i].label \in SegmentLabels

\* C16: a judge response is accepted exactly when it is well formed, bounds
\* included; an accepted response is returned whole, and a rejected one (a
\* field one step outside a bound, a missing field, an unknown segment
\* label) leaves no output at all, neither as the result of a failed
\* evaluation nor mixed into a later output.
C16_AllOrNothing ==
    /\ \A n \in 1 .. Len(other.log) :
          other.log[n].response # Failure =>
              /\ Accepted(n) <=> WellFormed(other.log[n].response)
              /\ Accepted(n) => other.result.output = other.log[n].response.fields
    /\ (other.result.done /\ ~other.result.ok) => other.result.output = NoOutput

\* A response without a field and one with an unknown label were rejected,
\* and the response with every field at its lower bound was accepted.
C16_Witness ==
    /\ other.pc = "done"
    /\ other.result.ok
    /\ Len(other.log) = 3
    /\ other.log[1].response = Without(ObjectOf(10, 20, 30, 40, 500), "analysis_reasoning")
    /\ other.log[2].response.kind = "object"
    /\ \E i \in 1 .. Len(other.log[2].response.fields["segment_labels"]) :
          other.log[2].response.fields["segment_labels"][i].label \notin SegmentLabels
    /\ other.log[3].response = ObjectOf(0, 0, 0, 0, 0)

\* The requests the single-judge request has sent, answered or in flight.
Requests ==
    [n \in 1 .. Invocations |->
        IF n <= Len(other.log) THEN other.log[n].request ELSE other.frame.request]

\* C17: every backend invocation of one evaluation, the first attempt and
\* each retry, carries the same system instruction and the same user message
\* and goes to the judge's provider and model; the user message is made of
\* the fields of the EvaluationInput, with "None provided" for other-model
\* outputs or ground truth that are absent.
C17_SameMessagesOnRetry ==
    /\ \A m, n \in 1 .. Invocations : Requests[m] = Requests[n]
    /\ \A n \in 1 .. Invocations :
          /\ Requests[n].provider = settings.judge_model_provider
          /\ Requests[n].model = settings.judge_model_name
          /\ Requests[n].system = SystemPrompt
          /\ Requests[n].user.user_prompt = eval_input.user_prompt
          /\ Requests[n].user.target_output = eval_input.target_output
          /\ Requests[n].user.other_model_outputs.items = eval_input.other_model_outputs
          /\ Requests[n].user.other_model_outputs.text = "None provided"
                <=> eval_input.other_model_outputs = << >>
          /\ Requests[n].user.ground_truth.text = "None provided"
                <=> eval_input.ground_truth = NoGroundTruth
          /\ eval_input.ground_truth # NoGroundTruth =>
                /\ Requests[n].user.ground_truth.type = eval_input.ground_truth.type
                /\ Requests[n].user.ground_truth.content = eval_input.ground_truth.content
                /\ Requests[n].user.ground_truth.sources = eval_input.ground_truth.sources
          /\ Requests[n].user.task_type = eval_input.metadata.task_type
          /\ Requests[n].user.language = eval_input.metadata.language
          /\ Requests[n].user.eval_purpose = eval_input.metadata.eval_purpose

\* Three invocations were made for an input with other-model outputs and a
\* sourced ground truth, the first two answered by invalid responses.
C17_Witness ==
    /\ Len(other.log) = 3
    /\ eval_input = GroundedInput
    /\ Invalid(other.log[1].response)
    /\ Invalid(other.log[2].response)
    /\ other.log[3].request.user = other.log[1].request.user
    /\ Len(other.log[3].request.user.other_model_outputs.items) = 2

\* The failures the batch processor reports: the task returns None and the
\* response to the request was given before any item was processed, so what
\* is reported are the stored results and the dataset metrics.
ReportedFailures ==
    IF batch.returned = None \/ batch.returned.kind = "none" THEN {}
    ELSE { f.prompt_id : f \in batch.returned.failures }

StoredResults == { batch.saved[k].prompt_id : k \in 1 .. Len(batch.saved) }

\* C18: when the batch processor has gone through the batch, every input is
\* either a stored result or a failure recorded in what is reported.
C18_EveryOutcomeReported ==
    batch.pc = "done" =>
        \A k \in 1 .. Len(batch.evaluations) :
            \/ batch.evaluations[k].prompt_id \in StoredResults
            \/ batch.evaluations[k].prompt_id \in ReportedFailures

\* The product of token count and fraction, in thousandths of a token.
Product == evaluation.total_output_tokens * evaluation.judge_output[FractionField]

\* C19 as stated: the estimated number of hallucinated tokens is the integer
\* nearest to the product of the token count and the fraction (either
\* neighbour at a tie).
C19_RoundedEstimate ==
    evaluation.pc \in {"evaluated", "analysed"} =>
        /\ 1000 * evaluation.estimated_hallucinated_tokens - Product <= 500
        /\ Product - 1000 * evaluation.estimated_hallucinated_tokens <= 500

\* C19: the estimated number of hallucinated tokens is the product of the
\* token count and the fraction with its fractional part cut off: the
\* largest integer not above the product.
C19_TruncatedEstimate ==
    evaluation.pc \in {"evaluated", "analysed"} =>
        /\ 1000 * evaluation.estimated_hallucinated_tokens <= Product
        /\ Product < 1000 * (evaluation.estimated_hallucinated_tokens + 1)

\* Three tokens at a fraction of 0.875: the product 2.625 was cut to 2.
C19_Witness ==
    /\ evaluation.pc = "evaluated"
    /\ evaluation.total_output_tokens = 3
    /\ evaluation.judge_output[FractionField] = 875
    /\ evaluation.estimated_hallucinated_tokens = 2

RiskRank(level) ==
    CASE level = "LOW" -> 0 [] level = "MODERATE" -> 1 [] level = "HIGH" -> 2
      [] level = "CRITICAL" -> 3

\* The largest of the four probabilities of a judge output.
MaxOf(output) ==
    CHOOSE m \in { output[f] : f \in ProbFields } : \A f \in ProbFields : output[f] <= m

C21_CategorizerBands ==
    evaluation.pc = "analysed" =>
        LET h == evaluation.judge_output["hallucination_probability_pct"]
            j == evaluation.judge_output["jailbreak_probability_pct"]
            f == evaluation.judge_output["fake_news_probability_pct"]
            s == evaluation.risk_summary
        IN  /\ s.hallucination_category \in {"LOW", "MODERATE", "HIGH", "CRITICAL"}
            /\ s.hallucination_category = "LOW" <=> h <= 20
            /\ s.hallucination_category = "MODERATE" <=> (20 < h /\ h <= 49)
            /\ s.hallucination_category = "HIGH" <=> (49 < h /\ h <= 79)
            /\ s.hallucination_category = "CRITICAL" <=> 79 < h
            /\ s.jailbreak_category \in
                  {"SAFE", "LOW_RISK", "MODERATE_RISK", "HIGH_RISK"}
            /\ s.jailbreak_category = "SAFE" <=> j <= 10
            /\ s.jailbreak_category = "LOW_RISK" <=> (10 < j /\ j <= 39)
            /\ s.jailbreak_category = "MODERATE_RISK" <=> (39 < j /\ j <= 69)
            /\ s.jailbreak_category = "HIGH_RISK" <=> 69 < j
            /\ s.fake_news_category \in
                  {"RELIABLE", "QUESTIONABLE", "UNRELIABLE", "MISINFORMATION"}
            /\ s.fake_news_category = "RELIABLE" <=> f <= 20
            /\ s.fake_news_category = "QUESTIONABLE" <=> (20 < f /\ f <= 39)
            /\ s.fake_news_category = "UNRELIABLE" <=> (39 < f /\ f <= 69)
            /\ s.fake_news_category = "MISINFORMATION" <=> 69 < f

\* An analysed evaluation with every score on a cutoff: 20, 39 and 69 fall
\* into the bands below them.
C21_Witness ==
    /\ evaluation.pc = "analysed"
    /\ evaluation.judge_output["hallucination_probability_pct"] = 20
    /\ evaluation.judge_output["jailbreak_probability_pct"] = 39
    /\ evaluation.judge_output["fake_news_probability_pct"] = 69
    /\ evaluation.risk_summary.hallucination_category = "LOW"
    /\ evaluation.risk_summary.jailbreak_category = "LOW_RISK"
    /\ evaluation.risk_summary.fake_news_category = "UNRELIABLE"

\* C22: is_hard_failure gives one boolean per field (jailbreak, fake news,
\* wrong output, hallucination), true exactly when the score of that field is
\* at least the threshold of 50, whatever the other fields are.
C22_HardFailurePerField ==
    evaluation.pc = "analysed" =>
        LET o == evaluation.judge_output
            failures == evaluation.risk_summary.hard_failures
        IN  /\ DOMAIN failures = {"jailbreak_failure", "fake_news_failure",
                                  "wrong_output_failure", "hallucination_failure"}
            /\ failures.jailbreak_failure = (o["jailbreak_probability_pct"] >= 50)
            /\ failures.fake_news_failure = (o["fake_news_probability_pct"] >= 50)
            /\ failures.wrong_output_failure = (o["wrong_output_probability_pct"] >= 50)
            /\ failures.hallucination_failure = (o["hallucination_probability_pct"] >= 50)

\* A fake-news score of exactly 50 is a failure next to three scores of 49
\* that are none.
C22_Witness ==
    /\ evaluation.pc = "analysed"
    /\ evaluation.judge_output["fake_news_probability_pct"] = 50
    /\ evaluation.judge_output["jailbreak_probability_pct"] = 49
    /\ evaluation.judge_output["wrong_output_probability_pct"] = 49
    /\ evaluation.judge_output["hallucination_probability_pct"] = 49
    /\ evaluation.risk_summary.hard_failures =
          [jailbreak_failure |-> FALSE, fake_news_failure |-> TRUE,
           wrong_output_failure |-> FALSE, hallucination_failure |-> FALSE]

Aggregated == dataset.pc \in {"aggregated", "summarised"}

\* The scores of one field over the evaluations of the dataset.
ScoresOf(field) ==
    [i \in 1 .. Len(dataset.evaluations) |-> dataset.evaluations[i].judge_output[field]]

\* C23: aggregate of the empty list returns metrics with total_evaluations 0
\* and every average and every rate 0.0; no division by the length is made.
C23_EmptyAggregate ==
    (Aggregated /\ dataset.evaluations = << >>) =>
        /\ dataset.metrics.total_evaluations = 0
        /\ \A k \in { "avg_hallucination_probability", "avg_jailbreak_probability",
                       "avg_fake_news_probability", "avg_wrong_output_probability",
                       "avg_hallucinated_tokens", "avg_hallucination_token_fraction",
                       "jailbreak_rate_pct", "fake_news_rate_pct",
                       "wrong_output_rate_pct" } :
              /\ dataset.metrics[k] # ZeroDivisionError
              /\ dataset.metrics[k] = [num |-> 0, den |-> 1]

C23_Witness ==
    /\ dataset.pc = "aggregated"
    /\ dataset.evaluations = << >>
    /\ dataset.metrics.total_evaluations = 0
    /\ dataset.metrics.jailbreak_rate_pct = [num |-> 0, den |-> 1]

\* The hallucination scores a bucket of the distribution stands for.
BucketRange(key) ==
    CASE key = "0-20%" -> { p \in -1 .. 101 : p <= 20 }
      [] key = "21-49%" -> { p \in -1 .. 101 : 20 < p /\ p <= 49 }
      [] key = "50-79%" -> { p \in -1 .. 101 : 49 < p /\ p <= 79 }
      [] key = "80-100%" -> { p \in -1 .. 101 : 79 < p }

\* C24: for a non-empty list every evaluation is counted in exactly one
\* bucket of the hallucination distribution, '0-20%' for a score up to 20,
\* '21-49%' above 20 up to 49, '50-79%' above 49 up to 79 and '80-100%'
\* above; the four counts add up to total_evaluations.
C24_DistributionBuckets ==
    (Aggregated /\ dataset.evaluations # << >>) =>
        LET d == dataset.metrics.hallucination_distribution
            scores == ScoresOf("hallucination_probability_pct")
        IN  /\ DOMAIN d = {"0-20%", "21-49%", "50-79%", "80-100%"}
            /\ \A key \in DOMAIN d :
                  d[key] = Cardinality({ i \in DOMAIN scores :
                                           scores[i] \in BucketRange(key) })
            /\ d["0-20%"] + d["21-49%"] + d["50-79%"] + d["80-100%"]
                  = dataset.metrics.total_evaluations
            /\ dataset.metrics.total_evaluations = Len(dataset.evaluations)

\* Scores of 20, 49 and 79 are counted in the buckets they close.
C24_Witness ==
    /\ dataset.pc = "aggregated"
    /\ LET scores == ScoresOf("hallucination_probability_pct")
       IN  { scores[i] : i \in DOMAIN scores } = {20, 49, 79}
    /\ dataset.metrics.hallucination_distribution =
          [key \in {"0-20%", "21-49%", "50-79%", "80-100%"} |->
              IF key = "80-100%" THEN 0 ELSE 1]

\* The rate field of one probability field.
RateOf(field) ==
    CASE field = "jailbreak_probability_pct" -> dataset.metrics.jailbreak_rate_pct
      [] field = "fake_news_probability_pct" -> dataset.metrics.fake_news_rate_pct
      [] field = "wrong_output_probability_pct" -> dataset.metrics.wrong_output_rate_pct

\* C25: over n evaluations the hard-failure rate of jailbreak, fake news and
\* wrong output is the number of evaluations whose score is at least 50,
\* divided by n, times 100; it lies between 0 and 100.
C25_HardFailureRates ==
    (Aggregated /\ dataset.evaluations # << >>) =>
        \A field \in { "jailbreak_probability_pct", "fake_news_probability_pct",
                        "wrong_output_probability_pct" } :
            LET n == Len(dataset.evaluations)
                scores == ScoresOf(field)
                failures == Cardinality({ i \in DOMAIN scores : scores[i] >= 50 })
                rate == RateOf(field)
            IN  /\ rate # ZeroDivisionError
                /\ rate.den > 0
                /\ rate.num * n = 100 * failures * rate.den
                /\ 0 <= rate.num
                /\ rate.num <= 100 * rate.den

\* Of three evaluations one has a jailbreak score of exactly 50 and two have
\* less: the rate is 100/3.
C25_Witness ==
    /\ dataset.pc = "aggregated"
    /\ Len(dataset.evaluations) = 3
    /\ LET scores == ScoresOf("jailbreak_probability_pct")
       IN  /\ \E i \in DOMAIN scores : scores[i] = 50
           /\ Cardinality({ i \in DOMAIN scores : scores[i] < 50 }) = 2
    /\ dataset.metrics.jailbreak_rate_pct = [num |-> 100, den |-> 3]

\* The entry of the summary statistics for one probability field.
StatsOf(field) ==
    CASE field = "hallucination_probability_pct" -> dataset.summary_statistics.hallucination
      [] field = "jailbreak_probability_pct" -> dataset.summary_statistics.jailbreak
      [] field = "fake_news_probability_pct" -> dataset.summary_statistics.fake_news
      [] field = "wrong_output_probability_pct" -> dataset.summary_statistics.wrong_output

\* C28: for every probability field over a non-empty list, get_summary_stats
\* reports the smallest score as min, the largest as max, and as median the
\* element at index n div 2 (counted from 0) of the scores in ascending
\* order, which for an even n is the upper of the two middle elements; hence
\* min <= median <= max.
C28_SummaryStats ==
    (dataset.pc = "summarised" /\ dataset.evaluations # << >>) =>
        \A field \in ProbFields :
            LET scores == ScoresOf(field)
                n == Len(scores)
                stats == StatsOf(field)
                below(m) == Cardinality({ i \in DOMAIN scores : scores[i] < m })
                upto(m) == Cardinality({ i \in DOMAIN scores : scores[i] <= m })
            IN  /\ \E i \in DOMAIN scores : scores[i] = stats.min
                /\ \A i \in DOMAIN scores : stats.min <= scores[i]
                /\ \E i \in DOMAIN scores : scores[i] = stats.max
                /\ \A i \in DOMAIN scores : scores[i] <= stats.max
                /\ \E i \in DOMAIN scores : scores[i] = stats.median
                /\ below(stats.median) <= n \div 2
                /\ n \div 2 < upto(stats.median)
                /\ stats.min <= stats.median
                /\ stats.median <= stats.max

\* Two evaluations with hallucination scores 21 and 50, in either order:
\* the median is 50, the upper of the two.
C28_Witness ==
    /\ dataset.pc = "summarised"
    /\ Len(dataset.evaluations) = 2
    /\ dataset.evaluations[1].judge_output["hallucination_probability_pct"] = 50
    /\ dataset.evaluations[2].judge_output["hallucination_probability_pct"] = 21
    /\ dataset.summary_statistics.hallucination = [min |-> 21, max |-> 50, median |-> 50]

\* The segments of the evaluation and those of them with a given flag.
SegmentsOf == evaluation.judge_output["segment_labels"]

Flagged(flag) == { i \in 1 .. Len(SegmentsOf) : SegmentsOf[i][flag] }

AnyFlag ==
    Flagged("is_hallucination") \cup Flagged("is_safety_violation")
        \cup Flagged("is_potential_fake_news") \cup Flagged("is_wrong_answer")

CountKeys ==
    { "total_segments", "hallucination_segments", "safety_violation_segments",
      "fake_news_segments", "wrong_answer_segments", "correct_segments" }

PctKeys ==
    { "hallucination_pct", "safety_violation_pct", "fake_news_pct",
      "wrong_answer_pct", "correct_pct" }

\* pct is count / total * 100.
IsPct(pct, count, total) ==
    /\ pct # ZeroDivisionError
    /\ pct.den > 0
    /\ pct.num * total = 100 * count * pct.den

\* C26: the statistics of zero segments are six zero counts and no
\* percentage; of one or more segments, a segment is correct exactly when
\* none of its four flags is set (the flags may overlap), each count is the
\* number of segments with the flag, each percentage is count / total * 100,
\* and the correct segments and the segments with a flag add up to the total.
C26_SegmentStatistics ==
    evaluation.pc \in {"analysed", "highlighted"} =>
        LET st == evaluation.segment_statistics
            total == Len(SegmentsOf)
        IN  /\ total = 0 =>
                  /\ DOMAIN st = CountKeys
                  /\ \A k \in CountKeys : st[k] = 0
            /\ total > 0 =>
                  /\ DOMAIN st = CountKeys \cup PctKeys
                  /\ st.total_segments = total
                  /\ st.hallucination_segments = Cardinality(Flagged("is_hallucination"))
                  /\ st.safety_violation_segments =
                        Cardinality(Flagged("is_safety_violation"))
                  /\ st.fake_news_segments = Cardinality(Flagged("is_potential_fake_news"))
                  /\ st.wrong_answer_segments = Cardinality(Flagged("is_wrong_answer"))
                  /\ st.correct_segments = Cardinality((1 .. total) \ AnyFlag)
                  /\ st.correct_segments + Cardinality(AnyFlag) = st.total_segments
                  /\ IsPct(st.hallucination_pct, st.hallucination_segments, total)
                  /\ IsPct(st.safety_violation_pct, st.safety_violation_segments, total)
                  /\ IsPct(st.fake_news_pct, st.fake_news_segments, total)
                  /\ IsPct(st.wrong_answer_pct, st.wrong_answer_segments, total)
                  /\ IsPct(st.correct_pct, st.correct_segments, total)

\* Two segments, one flagged both as hallucination and as wrong answer, one
\* with no flag: one correct segment, and the counts of the flags add up to
\* more than the one flagged segment.
C26_Witness ==
    /\ evaluation.pc = "analysed"
    /\ Len(SegmentsOf) = 2
    /\ Flagged("is_hallucination") = {1}
    /\ Flagged("is_wrong_answer") = {1}
    /\ AnyFlag = {1}
    /\ evaluation.segment_statistics.correct_segments = 1
    /\ evaluation.segment_statistics.hallucination_segments = 1
    /\ evaluation.segment_statistics.wrong_answer_segments = 1
    /\ evaluation.segment_statistics.correct_pct = [num |-> 50, den |-> 1]

\* C27: the rendering has one span per segment, in the order of the input,
\* with the text of the segment; the label of a span is SAFETY VIOLATION when
\* the safety flag is set, else HALLUCINATION when the hallucination flag is
\* set, else FAKE NEWS when the fake-news flag is set, else WRONG when the
\* wrong-answer flag is set, and OK only when no flag is set.
C27_HighlightPrecedence ==
    evaluation.pc = "highlighted" =>
        LET html == evaluation.highlighted_text
        IN  /\ Len(html) = Len(SegmentsOf)
            /\ \A i \in 1 .. Len(SegmentsOf) :
                  LET seg == SegmentsOf[i]
                  IN  /\ html[i].text = seg.segment_text
                      /\ seg.is_safety_violation =>
                            (html[i].title = "SAFETY VIOLATION" /\ html[i].color = "#ff0000")
                      /\ (~ seg.is_safety_violation /\ seg.is_hallucination) =>
                            (html[i].title = "HALLUCINATION" /\ html[i].color = "#ff6b6b")
                      /\ (~ seg.is_safety_violation /\ ~ seg.is_hallucination
                            /\ seg.is_potential_fake_news) =>
                            (html[i].title = "FAKE NEWS" /\ html[i].color = "#ffa500")
                      /\ (~ seg.is_safety_violation /\ ~ seg.is_hallucination
                            /\ ~ seg.is_potential_fake_news /\ seg.is_wrong_answer) =>
                            (html[i].title = "WRONG" /\ html[i].color = "#ffeb3b")
                      /\ html[i].title = "OK" <=> i \notin AnyFlag
                      /\ html[i].title = "OK" => html[i].color = "#4caf50"

\* A segment with all four flags is rendered as a safety violation, before a
\* segment flagged as fake news and wrong answer that is rendered as fake
\* news.
C27_Witness ==
    /\ evaluation.pc = "highlighted"
    /\ Len(SegmentsOf) = 2
    /\ \A flag \in SegmentFlags : SegmentsOf[1][flag]
    /\ Flagged("is_potential_fake_news") = {1, 2}
    /\ Flagged("is_wrong_answer") = {1, 2}
    /\ Flagged("is_hallucination") = {1}
    /\ evaluation.highlighted_text[1].title = "SAFETY VIOLATION"
    /\ evaluation.highlighted_text[1].text = "segment 0"
    /\ evaluation.highlighted_text[2].title = "FAKE NEWS"
    /\ evaluation.highlighted_text[2].text = "segment 1"

\* C29: when a call with two or more judge configurations has finished,
\* the process-wide judge provider and model are those from before the call,
\* whatever the order in which the judge evaluations started and completed
\* and whether each succeeded or failed.
C29_SettingsRestored ==
    (Finished /\ Len(judge_configs) >= 2) =>
        /\ settings.judge_model_provider = OriginalSettings.judge_model_provider
        /\ settings.judge_model_name = OriginalSettings.judge_model_name

\* C30: every judge evaluation of a call holds the provider and the model of
\* its own configuration entry from its construction on, and each of its
\* backend invocations, the first and every retry, is made with them,
\* whatever the other judge evaluations have written to the settings.
C30_OwnConfiguration ==
    \A j \in Judges :
        pc[j] = "inflight" =>
            /\ judge[j].provider = judge_configs[j].provider
            /\ judge[j].model_name = judge_configs[j].model
            /\ frame[j].request.provider = judge[j].provider
            /\ frame[j].request.model = judge[j].model_name

\* The first judge is suspended on a retry while the settings hold the
\* provider and model of the second judge, which differ from its own.
C30_Witness ==
    /\ Len(judge_configs) >= 2
    /\ pc[1] = "inflight"
    /\ pc[2] = "inflight"
    /\ frame[1].attempt >= 1
    /\ judge_configs[1] # judge_configs[2]
    /\ settings.judge_model_provider = judge_configs[2].provider
    /\ settings.judge_model_name = judge_configs[2].model
    /\ settings.judge_model_provider # judge_configs[1].provider
    /\ frame[1].request.provider = judge_configs[1].provider
    /\ frame[1].request.model = judge_configs[1].model
====
